---- MODULE Spec2Model ----
(***************************************************************************)
(* Model of the WebIC-Trainer simulation kernel: the net resolver and the  *)
(* event scheduler of CircuitEngine (js/simulation.js), the output         *)
(* propagation of TTLChip (js/ttl-chip.js) and the wire graph of           *)
(* WiringManager (js/wiring-engine.js) as the SystemController sets it up. *)
(***************************************************************************)
EXTENDS Integers, Sequences, FiniteSets, TLC

\* ---------------------------------------------------------------------
\* Electrical states (js/simulation.js 7-10)
\* ---------------------------------------------------------------------
STATE_LOW == 0
STATE_HIGH == 1
STATE_FLOAT == 2
STATE_ERROR == 3

States == {STATE_LOW, STATE_HIGH, STATE_FLOAT, STATE_ERROR}

\* ---------------------------------------------------------------------
\* Bounds of the model
\* ---------------------------------------------------------------------
\* most drivers on the net handed to resolve
MaxDrivers == 3
\* most tasks ever handed to schedule (tasks scheduled by tasks included)
MaxTasks == 3
\* largest delay, dt and duration
MaxDelay == 2
\* logical time is not advanced past this
MaxTime == 3
\* most entries of the event queue in the net model
MaxQueue == 1
\* most wires added and removed, taken together, in the wiring model
MaxWires == 3

\* most half periods of the clock generator in the circuit model
MaxTicks == 20
\* most updates of the clock net waiting in the event queue
MaxPending == 3
\* logical time is not advanced past this in the circuit model
MaxCircuitTime == 20

NONE == 0 - 1
\* null / undefined
NULL == 0

VARIABLES
    \* resolver harness: values the drivers return, in iteration order; result
    rvals, rout,
    \* part harness: the chip on the bench, with its internalState, the
    \* levels its input pins read, what isPowered() returns and the updates
    \* its last evaluate() returned
    part,
    \* CircuitEngine: eventQueue, currentTime, nodes (the keys of the Map),
    \* nodeCounter; heap holds the Node objects, reachable or not
    eventQueue, currentTime, nodes, nodeCounter, heap,
    \* TTLChip: outputStates, pinNodes; inputNodes holds the pinNodes
    \* entries of the INPUT pins of the chips in the sockets
    outputStates, pinNodes, inputNodes,
    \* TTLChip.evaluating of the LS00
    evaluating,
    \* state the driver closures read: SystemController.isPowered and the
    \* value each external driver returns
    sysPower, extVal,
    \* WiringManager: wires, connections, pinToNodeId; the id of the last
    \* wire made and whether the last call called onWireError
    wires, connections, pinToNodeId, wireCounter, wireError,
    \* bookkeeping: next task id, execution log, the listener invocations of
    \* the last call, the last call made
    taskCounter, executed, calls, lastCall

resVars == <<rvals, rout, part>>
schedVars == <<eventQueue, currentTime, taskCounter, executed>>
netVars == <<nodes, nodeCounter, heap, outputStates, pinNodes, inputNodes,
            evaluating, calls>>
extVars == <<sysPower, extVal>>
wireVars == <<wires, connections, pinToNodeId, wireCounter, wireError>>
vars == <<resVars, schedVars, netVars, extVars, wireVars, lastCall>>

\* ---------------------------------------------------------------------
\* Node.resolve
\* ---------------------------------------------------------------------
NoFlags == [hasHigh |-> FALSE, hasLow |-> FALSE, hasError |-> FALSE]

\* the for-loop of resolve over the values the drivers return, in order
RECURSIVE scanDrivers(_, _)
scanDrivers(vals, f) ==
    IF vals = <<>> THEN f
    ELSE scanDrivers(Tail(vals),
            [hasError |-> f.hasError \/ Head(vals) = STATE_ERROR,
             hasHigh  |-> f.hasHigh \/ Head(vals) = STATE_HIGH,
             hasLow   |-> f.hasLow \/ Head(vals) = STATE_LOW])

resolve_noShort(vals) ==
    LET f == scanDrivers(vals, NoFlags) IN
    IF f.hasError THEN STATE_ERROR
    ELSE IF f.hasHigh THEN STATE_HIGH
    ELSE IF f.hasLow THEN STATE_LOW
    ELSE STATE_FLOAT

resolve(vals) ==
    LET f == scanDrivers(vals, NoFlags) IN
    IF f.hasError \/ (f.hasHigh /\ f.hasLow) THEN STATE_ERROR
    ELSE IF f.hasHigh THEN STATE_HIGH
    ELSE IF f.hasLow THEN STATE_LOW
    ELSE STATE_FLOAT

\* ---------------------------------------------------------------------
\* The objects of the net model
\* ---------------------------------------------------------------------
\* the chip: an LS00 with its power pins and its output Y1 (pin 3) bound
vccPin == 14
gndPin == 7
\* TTLChip.propDelay, in ns
propDelay == 10
OutPins == {3}
ChipPins == OutPins \cup {vccPin, gndPin}

\* driver closures: the two rail drivers of the controller, the driverFn
\* of each OUTPUT pin of the chip, and external drivers
RailDrivers == {"vccDriver", "gndDriver"}
ChipDrivers == {"out3"}
ExtDrivers == {"dA"}
\* the switchDriver closures of the controller
SwitchDrivers == {"sw0", "sw1"}
\* the driver closure registerClock makes: clockState when the clock
\* manager is powered, which extVal holds, else FLOAT
ClockDrivers == {"clk"}
DriverPin(d) == 3

\* listener closures: sinks that only observe the value
Listeners == {"l1", "l2"}

\* new Node(id)
NewNode == [state |-> STATE_FLOAT, drivers |-> <<>>, listeners |-> <<>>]

\* the engine, the chip and the bookkeeping as the methods see them
Eng == [eventQueue |-> eventQueue, currentTime |-> currentTime,
        nodes |-> nodes, nodeCounter |-> nodeCounter, heap |-> heap,
        outputStates |-> outputStates, pinNodes |-> pinNodes,
        inputNodes |-> inputNodes,
        sysPower |-> sysPower, extVal |-> extVal,
        wires |-> wires, connections |-> connections,
        pinToNodeId |-> pinToNodeId, wireCounter |-> wireCounter,
        wireError |-> wireError,
        taskCounter |-> taskCounter, executed |-> executed, calls |-> calls,
        evaluating |-> evaluating]

Idx(s) == 1..Len(s)
ValSet(s) == {s[i] : i \in Idx(s)}
Front(s) == SubSeq(s, 1, Len(s) - 1)
Last(s) == s[Len(s)]

\* Set.prototype.add: insertion order is kept, a member is not added again
SetAdd(s, x) == IF x \in ValSet(s) THEN s ELSE Append(s, x)

RECURSIVE SetAddAll(_, _)
SetAddAll(s, xs) ==
    IF xs = <<>> THEN s ELSE SetAddAll(SetAdd(s, Head(xs)), Tail(xs))

\* F applied to the value of v: the result of a call is computed once and
\* then named, as a const declaration does
Let(v, F(_)) == CHOOSE y \in {F(x) : x \in {v}} : TRUE

\* ---------------------------------------------------------------------
\* Node.update, with the driver closures it calls
\* ---------------------------------------------------------------------
RECURSIVE nodeUpdate(_, _)
RECURSIVE listenerCall(_, _)

validatePower_cached(e) ==
    LET vccNode == e.pinNodes[vccPin]
        gndNode == e.pinNodes[gndPin]
    IN IF vccNode = NULL \/ gndNode = NULL
       THEN [e |-> e, powered |-> FALSE]
       ELSE [e |-> e,
             powered |-> /\ e.heap[vccNode].state = STATE_HIGH
                         /\ e.heap[gndNode].state = STATE_LOW]

\* TTLChip.validatePower / isPowered: forces both power nets to resolve
validatePower(e) ==
    LET vccNode == e.pinNodes[vccPin]
        gndNode == e.pinNodes[gndPin]
    IN IF vccNode = NULL \/ gndNode = NULL
       THEN [e |-> e, powered |-> FALSE]
       ELSE Let(nodeUpdate(e, vccNode).e, LAMBDA e1 :
            Let(nodeUpdate(e1, gndNode).e, LAMBDA e2 :
                [e |-> e2,
                 powered |-> /\ e2.heap[vccNode].state = STATE_HIGH
                             /\ e2.heap[gndNode].state = STATE_LOW]))

callDriver_falsy(e, d) ==
    IF d = "vccDriver"
    THEN [e |-> e, val |-> IF e.sysPower THEN STATE_HIGH ELSE STATE_FLOAT]
    ELSE IF d = "gndDriver"
    THEN [e |-> e, val |-> IF e.sysPower THEN STATE_LOW ELSE STATE_FLOAT]
    ELSE IF d \in ChipDrivers
    THEN Let(validatePower(e), LAMBDA p :
             [e |-> p.e,
              val |-> IF ~p.powered THEN STATE_FLOAT
                      ELSE LET state == p.e.outputStates[DriverPin(d)] IN
                           IF state # NONE /\ state # STATE_LOW THEN state
                           ELSE STATE_FLOAT])
    ELSE IF d \in SwitchDrivers \cup ClockDrivers
    THEN [e |-> e, val |-> IF e.sysPower THEN e.extVal[d] ELSE STATE_FLOAT]
    ELSE [e |-> e, val |-> e.extVal[d]]

\* driver(): the value a driver closure returns, and the engine after it;
\* NONE stands for outputStates.get(pin) of a pin without an entry
callDriver(e, d) ==
    IF d = "vccDriver"
    THEN [e |-> e, val |-> IF e.sysPower THEN STATE_HIGH ELSE STATE_FLOAT]
    ELSE IF d = "gndDriver"
    THEN [e |-> e, val |-> IF e.sysPower THEN STATE_LOW ELSE STATE_FLOAT]
    ELSE IF d \in ChipDrivers
    THEN Let(validatePower(e), LAMBDA p :
             [e |-> p.e,
              val |-> IF ~p.powered THEN STATE_FLOAT
                      ELSE LET state == p.e.outputStates[DriverPin(d)] IN
                           IF state # NONE THEN state ELSE STATE_FLOAT])
    ELSE IF d \in SwitchDrivers \cup ClockDrivers
    THEN [e |-> e, val |-> IF e.sysPower THEN e.extVal[d] ELSE STATE_FLOAT]
    ELSE [e |-> e, val |-> e.extVal[d]]

RECURSIVE callDrivers(_, _, _)
callDrivers(e, ds, vals) ==
    IF ds = <<>> THEN [e |-> e, vals |-> vals]
    ELSE Let(callDriver(e, Head(ds)), LAMBDA r :
             callDrivers(r.e, Tail(ds), Append(vals, r.val)))

\* node.resolve() on the node object n
nodeResolve(e, n) ==
    Let(callDrivers(e, e.heap[n].drivers, <<>>), LAMBDA r :
        [e |-> r.e, val |-> resolve(r.vals)])

\* for (const listener of node.listeners) listener(value): the Set is
\* walked in insertion order and the walk is live, so that an entry a
\* listener adds during the walk is reached by it; i is the position of
\* the walk, old the state the node had before the call that notifies
RECURSIVE notify(_, _, _, _, _, _)
notify(e, n, i, old, value, how) ==
    IF i > Len(e.heap[n].listeners) THEN e
    ELSE LET l == e.heap[n].listeners[i] IN
         Let([e EXCEPT !.calls =
                 Append(e.calls, [listener |-> l, node |-> n,
                                  old |-> old, value |-> value,
                                  how |-> how])],
             LAMBDA called :
                 notify(listenerCall(called, l), n, i + 1, old, value, how))

nodeUpdate_always(e, n) ==
    Let(nodeResolve(e, n), LAMBDA r :
        LET old == r.e.heap[n].state IN
        Let([r.e EXCEPT !.heap[n].state = r.val], LAMBDA set :
            [e |-> notify(set, n, 1, old, r.val, "update"),
             changed |-> r.val # old]))

nodeUpdate(e, n) ==
    Let(nodeResolve(e, n), LAMBDA r :
        LET old == r.e.heap[n].state IN
        IF r.val # old
        THEN Let([r.e EXCEPT !.heap[n].state = r.val], LAMBDA set :
                 [e |-> notify(set, n, 1, old, r.val, "update"),
                  changed |-> TRUE])
        ELSE [e |-> r.e, changed |-> FALSE])

\* ---------------------------------------------------------------------
\* CircuitEngine.schedule / step / run
\* ---------------------------------------------------------------------
\* An entry of eventQueue: {time, task}.  A task closure is either a bare
\* task (id, parent, spawn), which schedules one further task for every
\* delay in spawn, nested (the first delay's task carries the rest), or the
\* closure of scheduleNodeUpdate for a node id.
Task(id, parent, spawn) ==
    [kind |-> "task", id |-> id, parent |-> parent, spawn |-> spawn,
     node |-> NULL]
UpdateTask(nodeId) ==
    [kind |-> "update", id |-> 0, parent |-> 0, spawn |-> <<>>,
     node |-> nodeId]

\* Array.prototype.sort with (a, b) => a.time - b.time: a stable sort
RECURSIVE insertByTime(_, _)
insertByTime(sorted, x) ==
    IF sorted = <<>> THEN <<x>>
    ELSE IF Head(sorted).time <= x.time
         THEN <<Head(sorted)>> \o insertByTime(Tail(sorted), x)
         ELSE <<x>> \o sorted

RECURSIVE sortByTime(_)
sortByTime(q) ==
    IF q = <<>> THEN <<>>
    ELSE insertByTime(sortByTime(Front(q)), Last(q))

schedule_lifo(e, delayNa, task) ==
    [e EXCEPT !.eventQueue =
        sortByTime(<<[time |-> e.currentTime + delayNa, task |-> task]>>
                   \o e.eventQueue)]

schedule(e, delayNa, task) ==
    [e EXCEPT !.eventQueue =
        sortByTime(Append(e.eventQueue,
                          [time |-> e.currentTime + delayNa, task |-> task]))]

scheduleNodeUpdate(e, nodeId, delay) == schedule(e, delay, UpdateTask(nodeId))

\* event.task(): a bare task is logged and calls schedule for its
\* successor, if any; the closure of scheduleNodeUpdate looks the node up
\* and updates it
runTask(e, ev) ==
    IF ev.task.kind = "update"
    THEN IF ev.task.node \in e.nodes THEN nodeUpdate(e, ev.task.node).e ELSE e
    ELSE Let([e EXCEPT !.executed =
                 Append(e.executed,
                        [id |-> ev.task.id, time |-> ev.time,
                         at |-> e.currentTime,
                         parent |-> ev.task.parent])],
             LAMBDA logged :
                 IF ev.task.spawn = <<>> THEN logged
                 ELSE schedule([logged EXCEPT
                                   !.taskCounter = logged.taskCounter + 1],
                               Head(ev.task.spawn),
                               Task(logged.taskCounter, ev.task.id,
                                    Tail(ev.task.spawn))))

RECURSIVE drain_strict(_)
drain_strict(e) ==
    IF Len(e.eventQueue) > 0 /\ e.eventQueue[1].time < e.currentTime
    THEN Let([e EXCEPT !.eventQueue = Tail(e.eventQueue)], LAMBDA shifted :
         Let(runTask(shifted, e.eventQueue[1]), LAMBDA ran :
             drain_strict(ran)))
    ELSE e

\* the while-loop of step
RECURSIVE drain(_)
drain(e) ==
    IF Len(e.eventQueue) > 0 /\ e.eventQueue[1].time <= e.currentTime
    THEN Let([e EXCEPT !.eventQueue = Tail(e.eventQueue)], LAMBDA shifted :
         Let(runTask(shifted, e.eventQueue[1]), LAMBDA ran :
             drain(ran)))
    ELSE e

step_once(e, dt) ==
    Let([e EXCEPT !.currentTime = e.currentTime + dt], LAMBDA a :
        IF Len(a.eventQueue) > 0 /\ a.eventQueue[1].time <= a.currentTime
        THEN Let([a EXCEPT !.eventQueue = Tail(a.eventQueue)],
                 LAMBDA shifted : runTask(shifted, a.eventQueue[1]))
        ELSE a)

step(e, dt) ==
    Let([e EXCEPT !.currentTime = e.currentTime + dt], LAMBDA a : drain(a))

runLoop_skipEvents(e, targetTime) ==
    IF e.currentTime < targetTime THEN [e EXCEPT !.currentTime = targetTime]
    ELSE e

\* the while-loop of run
RECURSIVE runLoop(_, _)
runLoop(e, targetTime) ==
    IF e.currentTime < targetTime
    THEN IF Len(e.eventQueue) > 0 /\ e.eventQueue[1].time <= targetTime
         THEN Let([e EXCEPT !.currentTime = e.eventQueue[1].time,
                            !.eventQueue = Tail(e.eventQueue)],
                  LAMBDA shifted :
              Let(runTask(shifted, e.eventQueue[1]), LAMBDA ran :
                  runLoop(ran, targetTime)))
         ELSE Let([e EXCEPT !.currentTime = targetTime], LAMBDA a :
                  runLoop(a, targetTime))
    ELSE e

run(e, duration) == runLoop(e, e.currentTime + duration)

\* ---------------------------------------------------------------------
\* CircuitEngine.createNode / addDriver / addListener / mergeNodes
\* ---------------------------------------------------------------------
createNode(e) ==
    LET id == e.nodeCounter + 1 IN
    [e EXCEPT !.nodeCounter = id,
              !.heap = [n \in 1..id |-> IF n = id THEN NewNode ELSE e.heap[n]],
              !.nodes = e.nodes \cup {id}]

addDriver(e, nodeId, driverFn) ==
    IF nodeId \in e.nodes
    THEN Let([e EXCEPT !.heap[nodeId].drivers =
                          SetAdd(e.heap[nodeId].drivers, driverFn)],
             LAMBDA a : scheduleNodeUpdate(a, nodeId, 0))
    ELSE e

addListener(e, nodeId, listenerFn) ==
    IF nodeId \in e.nodes
    THEN Let([e EXCEPT !.heap[nodeId].listeners =
                          SetAdd(e.heap[nodeId].listeners, listenerFn)],
             LAMBDA a :
                 listenerCall(
                     [a EXCEPT !.calls =
                         Append(a.calls,
                                [listener |-> listenerFn, node |-> nodeId,
                                 old |-> a.heap[nodeId].state,
                                 value |-> a.heap[nodeId].state,
                                 how |-> "add"])],
                     listenerFn))
    ELSE e

mergeNodes_noUpdate(e, nodeAId, nodeBId) ==
    IF nodeAId = nodeBId THEN [e |-> e, ret |-> NULL]
    ELSE IF nodeAId \notin e.nodes \/ nodeBId \notin e.nodes
    THEN [e |-> e, ret |-> NULL]
    ELSE [e |-> [e EXCEPT !.heap[nodeAId].drivers =
                             SetAddAll(e.heap[nodeAId].drivers,
                                       e.heap[nodeBId].drivers),
                          !.heap[nodeAId].listeners =
                             SetAddAll(e.heap[nodeAId].listeners,
                                       e.heap[nodeBId].listeners),
                          !.nodes = e.nodes \ {nodeBId}],
          ret |-> nodeAId]

\* ret is the value returned: nodeAId, or undefined after an early return
mergeNodes(e, nodeAId, nodeBId) ==
    IF nodeAId = nodeBId THEN [e |-> e, ret |-> NULL]
    ELSE IF nodeAId \notin e.nodes \/ nodeBId \notin e.nodes
    THEN [e |-> e, ret |-> NULL]
    ELSE Let([e EXCEPT !.heap[nodeAId].drivers =
                          SetAddAll(e.heap[nodeAId].drivers,
                                    e.heap[nodeBId].drivers),
                       !.heap[nodeAId].listeners =
                          SetAddAll(e.heap[nodeAId].listeners,
                                    e.heap[nodeBId].listeners),
                       !.nodes = e.nodes \ {nodeBId}],
             LAMBDA moved : [e |-> nodeUpdate(moved, nodeAId).e,
                             ret |-> nodeAId])

\* ---------------------------------------------------------------------
\* TTLChip.propagate
\* ---------------------------------------------------------------------
\* the body of updates.forEach for one {pin, state}
propagateOne(e, u) ==
    LET currentState == e.outputStates[u.pin] IN
    IF currentState # u.state
    THEN Let([e EXCEPT !.outputStates[u.pin] = u.state], LAMBDA e1 :
         LET node == e1.pinNodes[u.pin] IN
         IF node # NULL
         THEN LET oldNodeState == e1.heap[node].state IN
              Let(nodeUpdate(e1, node), LAMBDA r :
                  IF ~r.changed
                  THEN Let(nodeResolve(r.e, node), LAMBDA rr :
                           notify(rr.e, node, 1, oldNodeState, rr.val, "force"))
                  ELSE r.e)
         ELSE e1)
    ELSE e

RECURSIVE propagate(_, _)
propagate(e, updates) ==
    IF updates = <<>> THEN e
    ELSE Let(propagateOne(e, Head(updates)), LAMBDA e1 :
             propagate(e1, Tail(updates)))

\* ---------------------------------------------------------------------
\* WiringManager
\* ---------------------------------------------------------------------
\* pins the controller registers: the rails (the GND rail under two ids)
\* and two toggle switches
Pins == {"vcc", "gnd", "gnd-2", "switch-0", "switch-1"}

\* pins createPinUI registers for the chips in the sockets ic-1 and ic-2:
\* of the LS00 in ic-1 the input A1, the output Y1 and the power pins, of
\* the chip in ic-2 the input on pin 1
InputPins == {"ic-1-pin-1", "ic-2-pin-1"}
IcPins == InputPins \cup {"ic-1-pin-3", "ic-1-pin-7", "ic-1-pin-14"}

\* the pin number in the id of a pin of socket ic-1
PinNum(p) ==
    IF p = "ic-1-pin-3" THEN 3 ELSE IF p = "ic-1-pin-7" THEN gndPin ELSE vccPin

\* pinTypes after registerPin
pinTypes ==
    [p \in Pins \cup IcPins |->
        IF p \in {"vcc", "gnd", "gnd-2", "ic-1-pin-7", "ic-1-pin-14"}
        THEN "POWER"
        ELSE IF p \in InputPins THEN "INPUT"
        ELSE "OUTPUT"]

\* the onNetUpdate hook of the controller, up to its timers: every chip
\* pin among pins is bound to newNode
onNetUpdate(e, pins, newNode) ==
    [e EXCEPT
        !.pinNodes = [n \in DOMAIN e.pinNodes |->
                         IF \E p \in pins \cap (IcPins \ InputPins) :
                                PinNum(p) = n
                         THEN newNode ELSE e.pinNodes[n]],
        !.inputNodes = [p \in InputPins |->
                           IF p \in pins THEN newNode ELSE e.inputNodes[p]]]

validateWire_anyTypes(e, sourcePin, targetPin) ==
    IF sourcePin = targetPin THEN "Cannot connect pin to itself"
    ELSE IF \E i \in Idx(e.wires) :
               \/ (e.wires[i].source = sourcePin /\ e.wires[i].target = targetPin)
               \/ (e.wires[i].source = targetPin /\ e.wires[i].target = sourcePin)
    THEN "Wire already exists"
    ELSE IF \/ (sourcePin = "vcc" /\ targetPin = "gnd")
            \/ (sourcePin = "gnd" /\ targetPin = "vcc")
    THEN "Cannot short VCC to GND"
    ELSE "valid"

\* the error of an invalid wire, or "valid"
validateWire(e, sourcePin, targetPin) ==
    IF sourcePin = targetPin THEN "Cannot connect pin to itself"
    ELSE IF \E i \in Idx(e.wires) :
               \/ (e.wires[i].source = sourcePin /\ e.wires[i].target = targetPin)
               \/ (e.wires[i].source = targetPin /\ e.wires[i].target = sourcePin)
    THEN "Wire already exists"
    ELSE IF pinTypes[sourcePin] = "OUTPUT" /\ pinTypes[targetPin] = "OUTPUT"
    THEN "Cannot connect output to output"
    ELSE IF \/ (sourcePin = "vcc" /\ targetPin = "gnd")
            \/ (sourcePin = "gnd" /\ targetPin = "vcc")
    THEN "Cannot short VCC to GND"
    ELSE IF sourcePin = "vcc" /\ targetPin = "gnd"
    THEN "Cannot connect VCC to GND"
    ELSE "valid"

\* the pins the stack-driven traversal over connections visits from S
RECURSIVE Component(_, _)
Component(conn, S) ==
    LET T == S \cup UNION {conn[p] : p \in S} IN
    IF T = S THEN S ELSE Component(conn, T)

mergeNets(e, pinA, pinB) ==
    LET nodeA == e.pinToNodeId[pinA]
        nodeB == e.pinToNodeId[pinB]
    IN IF nodeA # NULL /\ nodeB # NULL /\ nodeA # nodeB
       THEN Let(mergeNodes(e, nodeA, nodeB), LAMBDA r :
            LET newNodeId == r.ret
                visited == Component(r.e.connections, {pinA})
            IN onNetUpdate(
                   [r.e EXCEPT !.pinToNodeId =
                       [p \in DOMAIN r.e.pinToNodeId |->
                           IF p \in visited THEN newNodeId
                           ELSE r.e.pinToNodeId[p]]],
                   visited, newNodeId))
       ELSE e

\* ret is the wire id returned, or null
addWire(e, sourcePin, targetPin) ==
    LET validation == validateWire(e, sourcePin, targetPin) IN
    IF validation # "valid"
    THEN [e |-> [e EXCEPT !.wireError = TRUE], ret |-> NULL]
    ELSE LET wireId == e.wireCounter + 1 IN
         Let([e EXCEPT
                 !.wireCounter = wireId,
                 !.wires = Append(e.wires, [id |-> wireId,
                                            source |-> sourcePin,
                                            target |-> targetPin]),
                 !.connections =
                     [p \in DOMAIN e.connections |->
                         IF p = sourcePin THEN e.connections[p] \cup {targetPin}
                         ELSE IF p = targetPin
                         THEN e.connections[p] \cup {sourcePin}
                         ELSE e.connections[p]]],
             LAMBDA added : [e |-> mergeNets(added, sourcePin, targetPin),
                             ret |-> wireId])

rebuildNet_keepNet(e, startPin) ==
    LET component == Component(e.connections, {startPin}) IN
    onNetUpdate(e, component, e.pinToNodeId[startPin])

rebuildNet(e, startPin) ==
    LET component == Component(e.connections, {startPin}) IN
    Let(createNode(e), LAMBDA made :
        LET newNodeId == made.nodeCounter IN
        onNetUpdate(
            [made EXCEPT !.pinToNodeId =
                [p \in DOMAIN made.pinToNodeId |->
                    IF p \in component THEN newNodeId
                    ELSE made.pinToNodeId[p]]],
            component, newNodeId))

RemoveAt(s, i) == SubSeq(s, 1, i - 1) \o SubSeq(s, i + 1, Len(s))

removeWire(e, wireId) ==
    IF \A i \in Idx(e.wires) : e.wires[i].id # wireId THEN e
    ELSE LET index == CHOOSE i \in Idx(e.wires) : e.wires[i].id = wireId
             wire == e.wires[index]
         IN Let([e EXCEPT
                    !.wires = RemoveAt(e.wires, index),
                    !.connections =
                        [p \in DOMAIN e.connections |->
                            IF p = wire.source
                            THEN e.connections[p] \ {wire.target}
                            ELSE IF p = wire.target
                            THEN e.connections[p] \ {wire.source}
                            ELSE e.connections[p]]],
                LAMBDA cut :
            Let(rebuildNet(cut, wire.source), LAMBDA split :
                rebuildNet(split, wire.target)))

\* ---------------------------------------------------------------------
\* LS00.evaluate and TTLChip.triggerEvaluation
\* ---------------------------------------------------------------------
\* evaluate(): FLOAT for the output when the chip is not powered, else the
\* NAND of the inputs read, which is y1 (LOW, HIGH or ERROR)
evaluate(e, y1) ==
    Let(validatePower(e), LAMBDA p :
        [e |-> p.e,
         updates |-> IF ~p.powered THEN <<[pin |-> 3, state |-> STATE_FLOAT]>>
                     ELSE <<[pin |-> 3, state |-> y1]>>])

\* triggerEvaluation(): the flag evaluating guards and frames the call
triggerEvaluation(e, y1) ==
    IF e.evaluating THEN e
    ELSE Let(evaluate([e EXCEPT !.evaluating = TRUE], y1), LAMBDA r :
         Let(IF Len(r.updates) > 0 THEN propagate(r.e, r.updates) ELSE r.e,
             LAMBDA done : [done EXCEPT !.evaluating = FALSE]))

\* TTLChip.getInputState on the pin bound to node
getInputState(e, node) ==
    IF node = NULL THEN STATE_FLOAT
    ELSE IF e.heap[node].state = STATE_FLOAT THEN STATE_HIGH
    ELSE e.heap[node].state

\* the nand closure of LS00.evaluate
nand(a, b) ==
    IF a = STATE_ERROR \/ b = STATE_ERROR THEN STATE_ERROR
    ELSE LET and == IF a = STATE_HIGH /\ b = STATE_HIGH THEN STATE_HIGH
                    ELSE STATE_LOW
         IN IF and = STATE_HIGH THEN STATE_LOW ELSE STATE_HIGH

\* LS00.evaluate() of the chip in socket ic-1 for its gate 1: input A1
\* reads the net of pin 1, input B1 is left on a net of its own, which
\* floats and reads HIGH
evaluateA(e) ==
    Let(validatePower(e), LAMBDA p :
        [e |-> p.e,
         updates |->
            IF ~p.powered THEN <<[pin |-> 3, state |-> STATE_FLOAT]>>
            ELSE <<[pin |-> 3,
                    state |-> nand(getInputState(p.e,
                                       p.e.inputNodes["ic-1-pin-1"]),
                                   STATE_HIGH)]>>])

chipTrigger_flagStays(e) ==
    IF e.evaluating THEN e
    ELSE Let(evaluateA([e EXCEPT !.evaluating = TRUE]), LAMBDA r :
             IF Len(r.updates) > 0 THEN propagate(r.e, r.updates) ELSE r.e)

\* triggerEvaluation() of the chip in socket ic-1: the flag evaluating
\* guards and frames the call
chipTrigger(e) ==
    IF e.evaluating THEN e
    ELSE Let(evaluateA([e EXCEPT !.evaluating = TRUE]), LAMBDA r :
         Let(IF Len(r.updates) > 0 THEN propagate(r.e, r.updates) ELSE r.e,
             LAMBDA done : [done EXCEPT !.evaluating = FALSE]))

chipTriggerRaising_noFinally(e) ==
    IF e.evaluating THEN [e |-> e, thrown |-> FALSE]
    ELSE Let([e EXCEPT !.evaluating = TRUE], LAMBDA entered :
             [e |-> validatePower(entered).e, thrown |-> FALSE])

\* triggerEvaluation() of the chip in socket ic-1 when its evaluate()
\* raises after its first statement, the call of isPowered(): catch logs
\* the error, finally clears the flag, nothing is thrown to the caller
chipTriggerRaising(e) ==
    IF e.evaluating THEN [e |-> e, thrown |-> FALSE]
    ELSE Let([e EXCEPT !.evaluating = TRUE], LAMBDA entered :
         Let(validatePower(entered).e, LAMBDA raised :
             [e |-> [raised EXCEPT !.evaluating = FALSE],
              thrown |-> FALSE]))

\* listener(value): the listeners the LS00 in ic-1 registers on its input
\* and power nets call its triggerEvaluation; the listener relay of net 4
\* calls engine.addListener(4, late) when the value it is given is HIGH;
\* every other listener only observes
listenerCall(e, l) ==
    IF l = "evalA" THEN chipTrigger(e)
    ELSE IF l = "relay"
    THEN IF 4 \in e.nodes /\ e.heap[4].state = STATE_HIGH
         THEN addListener(e, 4, "late") ELSE e
    ELSE e

\* ---------------------------------------------------------------------
\* Harness: the calls made on the engine
\* ---------------------------------------------------------------------
RECURSIVE SeqsUpTo(_, _)
SeqsUpTo(S, n) ==
    IF n = 0 THEN {<<>>}
    ELSE LET shorter == SeqsUpTo(S, n - 1) IN
         shorter \cup {Append(s, x) : s \in shorter, x \in S}

NoCall == [op |-> "new", arg |-> 0, prevTime |-> 0]

\* new CircuitEngine()
NewEngine ==
    /\ eventQueue = <<>>
    /\ currentTime = 0
    /\ nodes = {}
    /\ nodeCounter = 0
    /\ heap = <<>>
    /\ taskCounter = 1
    /\ executed = <<>>
    /\ calls = <<>>
    /\ lastCall = NoCall

\* new WiringManager(engine), no pin registered
NoWiring ==
    /\ wires = <<>>
    /\ connections = [p \in Pins |-> {}]
    /\ pinToNodeId = [p \in Pins |-> NULL]
    /\ wireCounter = 0
    /\ wireError = FALSE

NoChip ==
    /\ outputStates = [p \in OutPins |-> STATE_FLOAT]
    /\ pinNodes = [p \in ChipPins |-> NULL]
    /\ inputNodes = [p \in InputPins |-> NULL]
    /\ evaluating = FALSE
    /\ sysPower = FALSE
    /\ extVal = [d \in ExtDrivers \cup SwitchDrivers |->
                    IF d \in SwitchDrivers THEN STATE_LOW ELSE STATE_FLOAT]
    /\ NoWiring

\* no chip on the bench
NoPart == [kind |-> "none"]

ResIdle ==
    /\ rvals = <<>>
    /\ rout = NONE
    /\ part = NoPart

Apply(e) ==
    /\ eventQueue' = e.eventQueue
    /\ currentTime' = e.currentTime
    /\ nodes' = e.nodes
    /\ nodeCounter' = e.nodeCounter
    /\ heap' = e.heap
    /\ outputStates' = e.outputStates
    /\ pinNodes' = e.pinNodes
    /\ inputNodes' = e.inputNodes
    /\ evaluating' = e.evaluating
    /\ sysPower' = e.sysPower
    /\ extVal' = e.extVal
    /\ wires' = e.wires
    /\ connections' = e.connections
    /\ pinToNodeId' = e.pinToNodeId
    /\ wireCounter' = e.wireCounter
    /\ wireError' = e.wireError
    /\ taskCounter' = e.taskCounter
    /\ executed' = e.executed
    /\ calls' = e.calls

Commit(e, op, arg) ==
    /\ Apply(e)
    /\ lastCall' = [op |-> op, arg |-> arg, prevTime |-> currentTime]

\* ---------------------------------------------------------------------
\* Resolver harness: resolve on a net whose drivers return rvals
\* ---------------------------------------------------------------------
InitResolve ==
    /\ rvals \in SeqsUpTo(States, MaxDrivers)
    /\ rout = NONE
    /\ part = NoPart
    /\ NewEngine
    /\ NoChip

Resolve ==
    /\ rout = NONE
    /\ rout' = resolve(rvals)
    /\ UNCHANGED <<rvals, part, schedVars, netVars, extVars, wireVars, lastCall>>

NextResolve == Resolve

SpecResolve == InitResolve /\ [][NextResolve]_vars

\* ---------------------------------------------------------------------
\* Scheduler harness: bare tasks on a new engine
\* ---------------------------------------------------------------------
RECURSIVE SumSpawn(_)
SumSpawn(q) ==
    IF q = <<>> THEN 0 ELSE Len(Head(q).task.spawn) + SumSpawn(Tail(q))

\* tasks that exist or are still to be scheduled by queued tasks
Committed == (taskCounter - 1) + SumSpawn(eventQueue)

InitSched ==
    /\ NewEngine
    /\ NoChip
    /\ ResIdle

Schedule(delayNa, spawn) ==
    /\ Committed + 1 + Len(spawn) <= MaxTasks
    /\ \E e0 \in {[Eng EXCEPT !.taskCounter = taskCounter + 1]} :
       \E e \in {schedule(e0, delayNa, Task(taskCounter, 0, spawn))} :
          Commit(e, "schedule", delayNa)
    /\ UNCHANGED resVars

Step(dt) ==
    /\ currentTime + dt <= MaxTime
    /\ \E e0 \in {Eng} : \E e \in {step(e0, dt)} :
          Commit(e, "step", dt)
    /\ UNCHANGED resVars

Run(duration) ==
    /\ currentTime + duration <= MaxTime
    /\ \E e0 \in {Eng} : \E e \in {run(e0, duration)} :
          Commit(e, "run", duration)
    /\ UNCHANGED resVars

NextSched ==
    \/ \E d \in 0..MaxDelay, sp \in SeqsUpTo(0..1, 2) : Schedule(d, sp)
    \/ \E dt \in 0..MaxDelay : Step(dt)
    \/ \E du \in 0..MaxDelay : Run(du)

SpecSched == InitSched /\ [][NextSched]_vars

\* ---------------------------------------------------------------------
\* Net harness: the engine with the two power rails of the controller, one
\* chip whose power pins are bound to the rails and whose output has a
\* net with a listener, and one further net, after chip.setup and a first step that
\* drained the updates queued by addDriver
\* ---------------------------------------------------------------------
RailNode(d) == [state |-> STATE_FLOAT, drivers |-> <<d>>, listeners |-> <<>>]

InitNet ==
    /\ eventQueue = <<>>
    /\ currentTime = 0
    /\ nodes = 1..4
    /\ nodeCounter = 4
    /\ heap = <<RailNode("vccDriver"), RailNode("gndDriver"),
                [RailNode("out3") EXCEPT !.listeners = <<"l1">>], NewNode>>
    /\ outputStates = [p \in OutPins |-> STATE_FLOAT]
    /\ pinNodes = [p \in ChipPins |->
                      IF p = vccPin THEN 1 ELSE IF p = gndPin THEN 2 ELSE 3]
    /\ inputNodes = [p \in InputPins |-> NULL]
    /\ evaluating = FALSE
    /\ sysPower = FALSE
    /\ extVal = [d \in ExtDrivers \cup SwitchDrivers |->
                    IF d \in SwitchDrivers THEN STATE_LOW ELSE STATE_FLOAT]
    /\ NoWiring
    /\ taskCounter = 1
    /\ executed = <<>>
    /\ calls = <<>>
    /\ lastCall = NoCall
    /\ ResIdle

\* the engine at the start of a call: the log of listener calls is emptied
Fresh == [Eng EXCEPT !.calls = <<>>]

\* the nets the harness passes to the engine: every net but the rails
Nets == 3..nodeCounter

\* a closure is handed to the engine once
Attached(x) ==
    \E n \in 1..nodeCounter :
        x \in ValSet(heap[n].drivers) \cup ValSet(heap[n].listeners)

NAddDriver(n, d) ==
    /\ Len(eventQueue) < MaxQueue
    /\ ~Attached(d)
    /\ \E e0 \in {Fresh} : \E e \in {addDriver(e0, n, d)} :
          Apply(e)
    /\ UNCHANGED <<resVars, lastCall>>

NAddListener(n, l) ==
    /\ ~Attached(l)
    /\ \E e0 \in {Fresh} : \E e \in {addListener(e0, n, l)} :
          Apply(e)
    /\ UNCHANGED <<resVars, lastCall>>

NScheduleNodeUpdate(n) ==
    /\ Len(eventQueue) < MaxQueue
    /\ \E e0 \in {Fresh} : \E e \in {scheduleNodeUpdate(e0, n, 0)} :
          Apply(e)
    /\ UNCHANGED <<resVars, lastCall>>

NStep ==
    /\ \E e0 \in {Fresh} : \E e \in {step(e0, 0)} :
          Apply(e)
    /\ UNCHANGED <<resVars, lastCall>>

NMergeNodes(a, b) ==
    /\ \E e0 \in {Fresh} : \E r \in {mergeNodes(e0, a, b)} :
          Apply(r.e)
    /\ UNCHANGED <<resVars, lastCall>>

\* an external driver closure starts to return v
NSetDriver(d, v) ==
    /\ extVal[d] # v
    /\ \E e \in {[Fresh EXCEPT !.extVal[d] = v]} :
          Apply(e)
    /\ UNCHANGED <<resVars, lastCall>>

\* the power button: isPowered flips, then vccNode.update(), gndNode.update()
NPower ==
    /\ \E e0 \in {[Fresh EXCEPT !.sysPower = ~sysPower]} :
       \E e1 \in {nodeUpdate(e0, 1).e} : \E e2 \in {nodeUpdate(e1, 2).e} :
          Apply(e2)
    /\ UNCHANGED <<resVars, lastCall>>

\* an evaluation of the chip whose inputs make the gate output y1
NTriggerEvaluation(y1) ==
    /\ \E e0 \in {Fresh} : \E e \in {triggerEvaluation(e0, y1)} :
          Apply(e)
    /\ UNCHANGED <<resVars, lastCall>>

NextNet ==
    \/ \E n \in Nets, d \in ExtDrivers : NAddDriver(n, d)
    \/ \E n \in Nets, l \in Listeners : NAddListener(n, l)
    \/ \E n \in Nets : NScheduleNodeUpdate(n)
    \/ NStep
    \/ \E a, b \in Nets : NMergeNodes(a, b)
    \/ \E d \in ExtDrivers, v \in States \ {STATE_ERROR} : NSetDriver(d, v)
    \/ NPower
    \/ \E y1 \in States \ {STATE_FLOAT} : NTriggerEvaluation(y1)

SpecNet == InitNet /\ [][NextNet]_vars

\* ---------------------------------------------------------------------
\* Wiring harness: the engine and the wiring manager as the constructor of
\* the controller and its setup of switches and LEDs leave them: a net for
\* each rail and switch, the updates queued by addDriver pending
\* ---------------------------------------------------------------------
\* the registerPin calls of the controller: vccNode is node 1, gndNode is
\* node 2, then a net for each switch
registeredPins ==
    [p \in Pins |->
        IF p = "vcc" THEN 1
        ELSE IF p \in {"gnd", "gnd-2"} THEN 2
        ELSE IF p = "switch-0" THEN 3
        ELSE 4]

InitWire ==
    /\ eventQueue = <<[time |-> 0, task |-> UpdateTask(1)],
                      [time |-> 0, task |-> UpdateTask(2)],
                      [time |-> 0, task |-> UpdateTask(3)],
                      [time |-> 0, task |-> UpdateTask(4)]>>
    /\ currentTime = 0
    /\ nodes = 1..4
    /\ nodeCounter = 4
    /\ heap = <<RailNode("vccDriver"), RailNode("gndDriver"),
                RailNode("sw0"), RailNode("sw1")>>
    /\ outputStates = [p \in OutPins |-> STATE_FLOAT]
    /\ pinNodes = [p \in ChipPins |-> NULL]
    /\ inputNodes = [p \in InputPins |-> NULL]
    /\ evaluating = FALSE
    /\ sysPower = FALSE
    /\ extVal = [d \in ExtDrivers \cup SwitchDrivers |->
                    IF d \in SwitchDrivers THEN STATE_LOW ELSE STATE_FLOAT]
    /\ wires = <<>>
    /\ connections = [p \in Pins |-> {}]
    /\ pinToNodeId = registeredPins
    /\ wireCounter = 0
    /\ wireError = FALSE
    /\ taskCounter = 1
    /\ executed = <<>>
    /\ calls = <<>>
    /\ lastCall = NoCall
    /\ ResIdle

\* the state at the start of a call on the wiring manager
FreshWire == [Eng EXCEPT !.calls = <<>>, !.wireError = FALSE]

\* the wires added and removed so far: every removal makes two nets
WireOps == wireCounter + (nodeCounter - 4) \div 2

WAddWire(s, t) ==
    /\ WireOps < MaxWires
    /\ \E e0 \in {FreshWire} : \E r \in {addWire(e0, s, t)} : Apply(r.e)
    /\ UNCHANGED <<resVars, lastCall>>

WRemoveWire(id) ==
    /\ WireOps < MaxWires
    /\ \E e0 \in {FreshWire} : \E e \in {removeWire(e0, id)} : Apply(e)
    /\ UNCHANGED <<resVars, lastCall>>

\* the power button: isPowered flips, then vccNode.update() and
\* gndNode.update() on the rail nets the controller holds
WPower ==
    /\ \E e0 \in {[FreshWire EXCEPT !.sysPower = ~sysPower]} :
       \E e1 \in {nodeUpdate(e0, 1).e} : \E e2 \in {nodeUpdate(e1, 2).e} :
          Apply(e2)
    /\ UNCHANGED <<resVars, lastCall>>

NextWire ==
    \/ \E s, t \in Pins : WAddWire(s, t)
    \/ \E id \in 1..wireCounter : WRemoveWire(id)
    \/ WPower

SpecWire == InitWire /\ [][NextWire]_vars

\* ---------------------------------------------------------------------
\* Properties of the resolver
\* ---------------------------------------------------------------------
Contention(V) == STATE_ERROR \in V \/ (STATE_HIGH \in V /\ STATE_LOW \in V)

\* C1: resolve returns ERROR iff a driver returns ERROR or both HIGH and LOW
\* are returned; otherwise HIGH iff some driver returns HIGH; otherwise LOW
\* iff some driver returns LOW; otherwise FLOAT; and every iteration order
\* of drivers returning the same set of values gives the same result.
C1_ResolveContract ==
    rout # NONE =>
        LET V == ValSet(rvals) IN
        /\ (rout = STATE_ERROR) <=> Contention(V)
        /\ (rout = STATE_HIGH) <=> (~Contention(V) /\ STATE_HIGH \in V)
        /\ (rout = STATE_LOW) <=>
              (~Contention(V) /\ STATE_HIGH \notin V /\ STATE_LOW \in V)
        /\ (rout = STATE_FLOAT) <=> (V \subseteq {STATE_FLOAT})
        /\ \A s \in SeqsUpTo(States, MaxDrivers) :
              ValSet(s) = V => resolve(s) = rout

\* contention without any driver returning ERROR, next to a floating driver
C1_Witness ==
    /\ rout = STATE_ERROR
    /\ ValSet(rvals) = {STATE_HIGH, STATE_LOW, STATE_FLOAT}

\* ---------------------------------------------------------------------
\* Properties of the scheduler
\* ---------------------------------------------------------------------
\* C2: tasks are executed in non-decreasing order of their timestamps, and
\* tasks with equal timestamps in the order they were scheduled (task ids
\* are handed out in scheduling order), tasks scheduled by tasks included.
C2_ExecutionOrder ==
    \A i, j \in Idx(executed) :
        i < j =>
            /\ executed[i].time <= executed[j].time
            /\ executed[i].time = executed[j].time
                  => executed[i].id < executed[j].id

\* two tasks with one timestamp were executed, the later one scheduled by a
\* task during a drain, and a third one ran at another time
C2_Witness ==
    \E i, j, k \in Idx(executed) :
        /\ i < j
        /\ executed[i].time = executed[j].time
        /\ executed[j].parent # 0
        /\ executed[i].parent = 0
        /\ executed[k].time # executed[i].time

\* C3: when step(dt) returns, currentTime is its previous value plus dt and
\* no queue entry has time <= currentTime, entries enqueued with delay 0
\* during the step included.
C3_StepDrains ==
    lastCall.op = "step" =>
        /\ currentTime = lastCall.prevTime + lastCall.arg
        /\ \A i \in Idx(eventQueue) : eventQueue[i].time > currentTime

\* a step with dt > 0 ran a task and the task that it scheduled with delay 0
C3_Witness ==
    /\ lastCall.op = "step"
    /\ lastCall.arg > 0
    /\ \E i, k \in Idx(executed) :
          /\ executed[i].parent = executed[k].id
          /\ executed[k].at = currentTime
          /\ executed[i].time = currentTime
          /\ executed[i].at = currentTime

\* C4: when run(duration) returns, currentTime is its previous value plus
\* duration and no queue entry has time <= currentTime.
C4_RunDrains ==
    lastCall.op = "run" =>
        /\ currentTime = lastCall.prevTime + lastCall.arg
        /\ \A i \in Idx(eventQueue) : eventQueue[i].time > currentTime

Occurrences(s, id) == Cardinality({i \in Idx(s) : s[i].id = id})
Queued(q, id) == Cardinality({i \in Idx(q) : q[i].task.id = id})

\* C5: every scheduled task is executed exactly once: it is never dropped
\* or duplicated, a schedule call leaves the queued tasks and the log
\* untouched, and a step executes exactly the queued tasks whose timestamp
\* the new currentTime has reached and keeps the others queued.
C5_ExactlyOnce ==
    [][ /\ \A id \in 1..(taskCounter' - 1) :
              Queued(eventQueue', id) + Occurrences(executed', id) = 1
        /\ lastCall'.op = "schedule" =>
              /\ executed' = executed
              /\ \A i \in Idx(eventQueue) :
                    \E j \in Idx(eventQueue') : eventQueue'[j] = eventQueue[i]
        /\ lastCall'.op = "step" =>
              /\ SubSeq(executed', 1, Len(executed)) = executed
              /\ \A i \in Idx(eventQueue) :
                    IF eventQueue[i].time <= currentTime'
                    THEN \E k \in (Len(executed) + 1)..Len(executed') :
                            /\ executed'[k].id = eventQueue[i].task.id
                            /\ executed'[k].at = currentTime'
                    ELSE \E j \in Idx(eventQueue') :
                            eventQueue'[j] = eventQueue[i]
      ]_vars

\* a task waited in the queue through a step that did not reach it and was
\* executed by a later step, while another task is still waiting
C5_Witness ==
    /\ lastCall.op = "step"
    /\ Len(eventQueue) > 0
    /\ \E i \in Idx(executed) :
          /\ executed[i].parent = 0
          /\ executed[i].time = currentTime
          /\ executed[i].at = currentTime
          /\ lastCall.prevTime > 0
          /\ lastCall.prevTime < currentTime

\* ---------------------------------------------------------------------
\* Properties of the nets
\* ---------------------------------------------------------------------
\* the level a net takes for the set V of values its drivers return
Level(V) ==
    IF Contention(V) THEN STATE_ERROR
    ELSE IF STATE_HIGH \in V THEN STATE_HIGH
    ELSE IF STATE_LOW \in V THEN STATE_LOW
    ELSE STATE_FLOAT

\* what driver d returns in the state reached
Returns(d) ==
    IF d = "vccDriver" THEN (IF sysPower THEN STATE_HIGH ELSE STATE_FLOAT)
    ELSE IF d = "gndDriver" THEN (IF sysPower THEN STATE_LOW ELSE STATE_FLOAT)
    ELSE IF d \in ChipDrivers
    THEN (IF /\ heap[pinNodes[vccPin]].state = STATE_HIGH
             /\ heap[pinNodes[gndPin]].state = STATE_LOW
          THEN outputStates[DriverPin(d)] ELSE STATE_FLOAT)
    ELSE extVal[d]

\* C6: after mergeNodes(a, b) with a # b and both nets present, a's driver
\* set and listener set are the unions of the former ones, b is no longer
\* a net of the engine and a's state is the resolution of the values the
\* drivers of the union return; mergeNodes(a, a) and a merge naming a
\* missing net change nothing.
C6_MergeUnion ==
    [][ \A a, b \in Nets :
          NMergeNodes(a, b) =>
             IF a # b /\ a \in nodes /\ b \in nodes
             THEN /\ ValSet(heap'[a].drivers) =
                        ValSet(heap[a].drivers) \cup ValSet(heap[b].drivers)
                  /\ ValSet(heap'[a].listeners) =
                        ValSet(heap[a].listeners) \cup ValSet(heap[b].listeners)
                  /\ nodes' = nodes \ {b}
                  /\ heap'[a].state =
                        Level({Returns(d)' : d \in ValSet(heap'[a].drivers)})
             ELSE UNCHANGED <<nodes, nodeCounter, heap, eventQueue,
                              outputStates, pinNodes>>
      ]_vars

\* net 4 has been merged into net 3, one half driving HIGH and the other
\* LOW, each half with a listener: the surviving net is in ERROR and both
\* listeners have just been told so
C6_Witness ==
    /\ 3 \in nodes
    /\ 4 \notin nodes
    /\ heap[3].state = STATE_ERROR
    /\ {Returns(d) : d \in ValSet(heap[3].drivers)} = {STATE_HIGH, STATE_LOW}
    /\ Len(heap[3].listeners) = 2
    /\ Len(calls) = 2
    /\ \A i \in Idx(calls) :
          /\ calls[i].how = "update"
          /\ calls[i].node = 3
          /\ calls[i].value = STATE_ERROR

HasWire(s, t) ==
    \E i \in Idx(wires) :
        \/ (wires[i].source = s /\ wires[i].target = t)
        \/ (wires[i].source = t /\ wires[i].target = s)

InvalidWire(s, t) ==
    \/ s = t
    \/ HasWire(s, t)
    \/ (pinTypes[s] = "OUTPUT" /\ pinTypes[t] = "OUTPUT")
    \/ {s, t} = {"vcc", "gnd"}

\* C8: addWire(s, t) with s = t, with a wire already between s and t in
\* either orientation, with both pins of type OUTPUT, or with one pin
\* 'vcc' and the other 'gnd', returns null, calls onWireError, and leaves
\* wires, connections, pinToNodeId and the nets of the engine as they were.
C8_InvalidWireRejected ==
    \A s, t \in Pins :
        InvalidWire(s, t) =>
            \A e0 \in {FreshWire} : \A r \in {addWire(e0, s, t)} :
            /\ r.ret = NULL
            /\ r.e.wireError
            /\ r.e.wires = wires
            /\ r.e.connections = connections
            /\ r.e.pinToNodeId = pinToNodeId
            /\ r.e.wireCounter = wireCounter
            /\ r.e.nodes = nodes
            /\ r.e.heap = heap
            /\ r.e.nodeCounter = nodeCounter
            /\ r.e.eventQueue = eventQueue

\* a wire was just refused while two wires are in place and nets are merged
C8_Witness ==
    /\ wireError
    /\ Len(wires) = 2
    /\ pinToNodeId # registeredPins

\* the pins the controller registers on the net of each rail
VccRailPins == {p \in Pins : registeredPins[p] = 1}
GndRailPins == {p \in Pins : registeredPins[p] = 2}

\* C9: addWire never accepts a wire between a pin registered on the VCC
\* rail net and a pin registered on the GND rail net, in either order.
C9_NoRailShortWire ==
    \A i \in Idx(wires) :
        ~ \/ (wires[i].source \in VccRailPins /\ wires[i].target \in GndRailPins)
          \/ (wires[i].source \in GndRailPins /\ wires[i].target \in VccRailPins)

\* C10: two pins in one connected component of the wire graph map to the
\* same net id in pinToNodeId.
C10_ComponentOneNet ==
    \A p, q \in Pins :
        q \in Component(connections, {p}) => pinToNodeId[p] = pinToNodeId[q]

\* the driver the controller attaches on behalf of pin p
DriverOf(p) ==
    IF p = "vcc" THEN "vccDriver"
    ELSE IF p \in {"gnd", "gnd-2"} THEN "gndDriver"
    ELSE IF p = "switch-0" THEN "sw0"
    ELSE "sw1"

\* the wire graph with the pins registered on one net taken as joined
Joined ==
    [p \in Pins |->
        connections[p] \cup {q \in Pins : registeredPins[q] = registeredPins[p]}]

\* C11: the net a pin maps to holds the drivers attached on behalf of the
\* pins of its connected component, and no others, also after a wire is
\* removed and the nets of its two ends are made anew.
C11_NetHoldsPinDrivers ==
    \A p \in Pins :
        pinToNodeId[p] \in nodes =>
            ValSet(heap[pinToNodeId[p]].drivers) =
                {DriverOf(q) : q \in Component(Joined, {p})}

\* the nets of pin p after addWire(s, t) and removeWire of the id returned
AddThenRemove(s, t) ==
    Let(addWire(FreshWire, s, t), LAMBDA r : removeWire(r.e, r.ret))

ChainPins == {"vcc", "gnd", "switch-0"} \cup IcPins

\* the controller after its constructor and setupSwitches: the rail nets 1
\* and 2, the net 3 of switch S0, the first updates done
Board ==
    [eventQueue |-> <<>>, currentTime |-> 0,
     nodes |-> 1..3, nodeCounter |-> 3,
     heap |-> <<RailNode("vccDriver"), RailNode("gndDriver"), RailNode("sw0")>>,
     outputStates |-> [p \in OutPins |-> STATE_FLOAT],
     pinNodes |-> [p \in ChipPins |-> NULL],
     inputNodes |-> [p \in InputPins |-> NULL],
     sysPower |-> FALSE,
     extVal |-> [d \in ExtDrivers \cup SwitchDrivers |->
                    IF d \in SwitchDrivers THEN STATE_LOW ELSE STATE_FLOAT],
     wires |-> <<>>,
     connections |-> [p \in ChainPins |-> {}],
     pinToNodeId |-> [p \in ChainPins |->
                         IF p = "vcc" THEN 1 ELSE IF p = "gnd" THEN 2
                         ELSE IF p = "switch-0" THEN 3 ELSE NULL],
     wireCounter |-> 0, wireError |-> FALSE,
     taskCounter |-> 1, executed |-> <<>>, calls |-> <<>>,
     evaluating |-> FALSE]

\* createPinUI: a net of its own for the pin, registerPin, ic.setPinNode
createPinUI(e, p) ==
    Let(createNode(e), LAMBDA made :
        onNetUpdate([made EXCEPT !.pinToNodeId[p] = made.nodeCounter],
                    {p}, made.nodeCounter))

\* TTLChip.setup of the LS00: registerDrivers, registerListeners and the
\* first triggerEvaluation
setup(e) ==
    Let(addDriver(e, e.pinNodes[3], "out3"), LAMBDA e1 :
    Let(nodeUpdate(e1, e1.pinNodes[3]).e, LAMBDA e2 :
    Let(addListener(e2, e2.inputNodes["ic-1-pin-1"], "evalA"), LAMBDA e3 :
    Let(addListener(e3, e3.pinNodes[vccPin], "evalA"), LAMBDA e4 :
    Let(addListener(e4, e4.pinNodes[gndPin], "evalA"), LAMBDA e5 :
        chipTrigger(e5))))))

\* placeIC of the LS00 in ic-1: its pins, the wires to the rails, setup
placeA(e) ==
    Let(createPinUI(e, "ic-1-pin-1"), LAMBDA e1 :
    Let(createPinUI(e1, "ic-1-pin-3"), LAMBDA e2 :
    Let(createPinUI(e2, "ic-1-pin-7"), LAMBDA e3 :
    Let(createPinUI(e3, "ic-1-pin-14"), LAMBDA e4 :
    Let(addWire(e4, "ic-1-pin-14", "vcc").e, LAMBDA e5 :
    Let(addWire(e5, "ic-1-pin-7", "gnd").e, LAMBDA e6 :
        setup(e6)))))))

\* placeIC of the chip in ic-2, as far as its input on pin 1 goes
placeB(e) ==
    Let(createPinUI(e, "ic-2-pin-1"), LAMBDA e1 :
        addListener(e1, e1.inputNodes["ic-2-pin-1"], "evalB"))

Placed == placeB(placeA(Board))

InitChain ==
    /\ \E e \in {[Placed EXCEPT !.calls = <<>>]} :
          /\ eventQueue = e.eventQueue
          /\ currentTime = e.currentTime
          /\ nodes = e.nodes
          /\ nodeCounter = e.nodeCounter
          /\ heap = e.heap
          /\ outputStates = e.outputStates
          /\ pinNodes = e.pinNodes
          /\ inputNodes = e.inputNodes
          /\ evaluating = e.evaluating
          /\ sysPower = e.sysPower
          /\ extVal = e.extVal
          /\ wires = e.wires
          /\ connections = e.connections
          /\ pinToNodeId = e.pinToNodeId
          /\ wireCounter = e.wireCounter
          /\ wireError = e.wireError
          /\ taskCounter = e.taskCounter
          /\ executed = e.executed
          /\ calls = e.calls
    /\ lastCall = NoCall
    /\ ResIdle

\* the wires of the chain: S0 to input A1 of the LS00, output Y1 of the
\* LS00 to the input of the chip in ic-2
ChainWires ==
    {<<"switch-0", "ic-1-pin-1">>, <<"ic-1-pin-3", "ic-2-pin-1">>}

\* the wires the user added and removed so far: placeIC made two wires and
\* left nodeCounter at 8, every removal makes two nets
ChainOps == (wireCounter - 2) + (nodeCounter - 8) \div 2

\* of the calls made on the chain, lastCall only tells an evaluation that
\* raised from every other call
CAddWire(s, t) ==
    /\ ChainOps < MaxWires
    /\ \E e0 \in {FreshWire} : \E r \in {addWire(e0, s, t)} : Apply(r.e)
    /\ lastCall' = NoCall
    /\ UNCHANGED resVars

CRemoveWire(id) ==
    /\ ChainOps < MaxWires
    /\ \E e0 \in {FreshWire} : \E e \in {removeWire(e0, id)} : Apply(e)
    /\ lastCall' = NoCall
    /\ UNCHANGED resVars

\* a click on switch S0: switchState flips, switchNode.update() on the net
\* made for the switch, scheduleNodeUpdate(switchNode.id, 0)
CToggle ==
    /\ Len(eventQueue) < MaxQueue
    /\ \E e0 \in {[Fresh EXCEPT !.extVal["sw0"] =
                      IF extVal["sw0"] = STATE_LOW THEN STATE_HIGH
                      ELSE STATE_LOW]} :
       \E e1 \in {nodeUpdate(e0, 3).e} :
       \E e2 \in {scheduleNodeUpdate(e1, 3, 0)} :
          Apply(e2)
    /\ lastCall' = NoCall
    /\ UNCHANGED resVars

\* the power button, as WPower
CPower ==
    /\ \E e0 \in {[Fresh EXCEPT !.sysPower = ~sysPower]} :
       \E e1 \in {nodeUpdate(e0, 1).e} : \E e2 \in {nodeUpdate(e1, 2).e} :
          Apply(e2)
    /\ lastCall' = NoCall
    /\ UNCHANGED resVars

CStep ==
    /\ \E e0 \in {Fresh} : \E e \in {step(e0, 0)} : Apply(e)
    /\ lastCall' = NoCall
    /\ UNCHANGED resVars

\* a timer of placeIC, of the power button or of onNetUpdate fires:
\* ic.triggerEvaluation()
CTimerEvaluate ==
    /\ \E e0 \in {Fresh} : \E e \in {chipTrigger(e0)} : Apply(e)
    /\ lastCall' = NoCall
    /\ UNCHANGED resVars

\* the second timer of onNetUpdate fires for the net n: newNode.update(),
\* then every listener is called when the net does not float
CTimerRefresh(n) ==
    /\ \E e0 \in {Fresh} : \E e1 \in {nodeUpdate(e0, n).e} :
       \E r \in {nodeResolve(e1, n)} :
       \E e2 \in {IF r.val # STATE_FLOAT
                  THEN notify(r.e, n, 1, r.e.heap[n].state, r.val, "force")
                  ELSE r.e} :
          Apply(e2)
    /\ lastCall' = NoCall
    /\ UNCHANGED resVars

\* a timer fires and evaluate() raises in ic.triggerEvaluation()
CTimerEvaluateRaises ==
    /\ \E e0 \in {Fresh} : \E r \in {chipTriggerRaising(e0)} :
          Apply(r.e)
    /\ lastCall' = [op |-> "raise", arg |-> 0, prevTime |-> 0]
    /\ UNCHANGED resVars

NextChain ==
    \/ \E w \in ChainWires : CAddWire(w[1], w[2])
    \/ \E id \in 3..wireCounter : CRemoveWire(id)
    \/ CToggle
    \/ CPower
    \/ CStep
    \/ CTimerEvaluate
    \/ CTimerEvaluateRaises
    \/ \E n \in nodes : CTimerRefresh(n)

SpecChain == InitChain /\ [][NextChain]_vars

\* ---------------------------------------------------------------------
\* Properties of the chain
\* ---------------------------------------------------------------------
HasChainWire(s, t) ==
    \E i \in Idx(wires) :
        \/ (wires[i].source = s /\ wires[i].target = t)
        \/ (wires[i].source = t /\ wires[i].target = s)

\* the wire from the output of the LS00 to the input of the chip in ic-2
\* was made and then removed: the input is no longer bound to the net
\* createPinUI made for it
CutFromOutput ==
    /\ ~HasChainWire("ic-1-pin-3", "ic-2-pin-1")
    /\ inputNodes["ic-2-pin-1"] # Placed.inputNodes["ic-2-pin-1"]

\* C13: once the wire between the output of chip A and the input of chip B
\* is removed, the net the input of B maps to keeps its state whatever S0
\* and the steps do, and the input of B reads HIGH, as a floating input.
C13_CutInputFloats ==
    CutFromOutput =>
        /\ pinToNodeId["ic-2-pin-1"] \in nodes
        /\ inputNodes["ic-2-pin-1"] = pinToNodeId["ic-2-pin-1"]
        /\ heap[pinToNodeId["ic-2-pin-1"]].state = STATE_FLOAT
        /\ getInputState(Eng, inputNodes["ic-2-pin-1"]) = STATE_HIGH

\* after the cut S0, still wired to the powered LS00, was set HIGH and the
\* LOW output of its gate was evaluated and the queue drained
C13_Witness ==
    /\ CutFromOutput
    /\ HasChainWire("switch-0", "ic-1-pin-1")
    /\ sysPower
    /\ extVal["sw0"] = STATE_HIGH
    /\ outputStates[3] = STATE_LOW
    /\ eventQueue = <<>>

\* the power pins of the LS00 are bound to nets
PowerBound == pinNodes[vccPin] # NULL /\ pinNodes[gndPin] # NULL

RegisterValues == States \cup {NONE}

\* C15: the driver installed on an OUTPUT pin returns FLOAT whenever
\* isPowered() is false, and whenever isPowered() is true returns the value
\* the output register holds for the pin, FLOAT if it holds no entry.
C15_DriverFollowsPower ==
    \A v \in RegisterValues :
        \A e \in {[Eng EXCEPT !.outputStates[3] = v]} :
            callDriver(e, "out3").val =
                IF ~validatePower(e).powered THEN STATE_FLOAT
                ELSE IF v = NONE THEN STATE_FLOAT
                ELSE v

\* the register holds LOW from an evaluation under power, power is off
\* now and the driver returns FLOAT
C15_Witness ==
    /\ outputStates[3] = STATE_LOW
    /\ ~validatePower(Eng).powered
    /\ callDriver(Eng, "out3").val = STATE_FLOAT
    /\ \E e \in {[Eng EXCEPT !.sysPower = TRUE]} :
          /\ validatePower(e).powered
          /\ callDriver(e, "out3").val = STATE_LOW

\* ---------------------------------------------------------------------
\* The sequential parts: LS74, LS76, LS90, LS93
\* ---------------------------------------------------------------------
\* the update {pin, state} of an evaluate()
Upd(pin, state) == [pin |-> pin, state |-> state]

Floats(pins) == [i \in Idx(pins) |-> Upd(pins[i], STATE_FLOAT)]

Not(q) == IF q = STATE_HIGH THEN STATE_LOW ELSE STATE_HIGH

\* internalState of a dual flip-flop after its constructor
NewFlipFlops ==
    [ff1 |-> [q |-> STATE_LOW, lastClk |-> STATE_FLOAT],
     ff2 |-> [q |-> STATE_LOW, lastClk |-> STATE_FLOAT]]

\* internalState of a counter after its constructor
NewCounter ==
    [sectionA |-> [count |-> 0, lastClk |-> STATE_FLOAT],
     sectionB |-> [count |-> 0, lastClk |-> STATE_FLOAT]]

dff_levelClock(ff, clr, d, clk, pr) ==
    [lastClk |-> clk,
     q |-> IF clr = STATE_LOW /\ pr = STATE_HIGH THEN STATE_LOW
           ELSE IF pr = STATE_LOW /\ clr = STATE_HIGH THEN STATE_HIGH
           ELSE IF clr = STATE_LOW /\ pr = STATE_LOW THEN STATE_HIGH
           ELSE IF clk = STATE_HIGH THEN d
           ELSE ff.q]

\* one flip-flop of LS74.evaluate: lastClk is stored, then q is decided
dff(ff, clr, d, clk, pr) ==
    [lastClk |-> clk,
     q |-> IF clr = STATE_LOW /\ pr = STATE_HIGH THEN STATE_LOW
           ELSE IF pr = STATE_LOW /\ clr = STATE_HIGH THEN STATE_HIGH
           ELSE IF clr = STATE_LOW /\ pr = STATE_LOW THEN STATE_HIGH
           ELSE IF ff.lastClk = STATE_LOW /\ clk = STATE_HIGH THEN d
           ELSE ff.q]

\* LS74.evaluate(): in gives what getInputState reads on each input pin
evaluateLS74(st, powered, in) ==
    IF ~powered THEN [st |-> st, updates |-> Floats(<<5, 6, 9, 8>>)]
    ELSE LET ff1 == dff(st.ff1, in[1], in[2], in[3], in[4])
             ff2 == dff(st.ff2, in[13], in[12], in[11], in[10])
         IN [st |-> [ff1 |-> ff1, ff2 |-> ff2],
             updates |-> <<Upd(5, ff1.q), Upd(6, Not(ff1.q)),
                           Upd(9, ff2.q), Upd(8, Not(ff2.q))>>]

jkff_risingEdge(ff, clk, pr, clr, j, k) ==
    [lastClk |-> clk,
     q |-> IF clr = STATE_LOW /\ pr = STATE_HIGH THEN STATE_LOW
           ELSE IF pr = STATE_LOW /\ clr = STATE_HIGH THEN STATE_HIGH
           ELSE IF clr = STATE_LOW /\ pr = STATE_LOW THEN STATE_HIGH
           ELSE IF ff.lastClk = STATE_LOW /\ clk = STATE_HIGH
           THEN IF j = STATE_HIGH /\ k = STATE_LOW THEN STATE_HIGH
                ELSE IF j = STATE_LOW /\ k = STATE_HIGH THEN STATE_LOW
                ELSE IF j = STATE_HIGH /\ k = STATE_HIGH THEN Not(ff.q)
                ELSE ff.q
           ELSE ff.q]

\* one flip-flop of LS76.evaluate
jkff(ff, clk, pr, clr, j, k) ==
    [lastClk |-> clk,
     q |-> IF clr = STATE_LOW /\ pr = STATE_HIGH THEN STATE_LOW
           ELSE IF pr = STATE_LOW /\ clr = STATE_HIGH THEN STATE_HIGH
           ELSE IF clr = STATE_LOW /\ pr = STATE_LOW THEN STATE_HIGH
           ELSE IF ff.lastClk = STATE_HIGH /\ clk = STATE_LOW
           THEN IF j = STATE_HIGH /\ k = STATE_LOW THEN STATE_HIGH
                ELSE IF j = STATE_LOW /\ k = STATE_HIGH THEN STATE_LOW
                ELSE IF j = STATE_HIGH /\ k = STATE_HIGH THEN Not(ff.q)
                ELSE ff.q
           ELSE ff.q]

\* LS76.evaluate()
evaluateLS76(st, powered, in) ==
    IF ~powered THEN [st |-> st, updates |-> Floats(<<15, 16, 9, 8>>)]
    ELSE LET ff1 == jkff(st.ff1, in[1], in[2], in[3], in[4], in[6])
             ff2 == jkff(st.ff2, in[12], in[11], in[10], in[14], in[13])
         IN [st |-> [ff1 |-> ff1, ff2 |-> ff2],
             updates |-> <<Upd(15, ff1.q), Upd(16, Not(ff1.q)),
                           Upd(9, ff2.q), Upd(8, Not(ff2.q))>>]

\* one section of a counter in normal counting: lastClk is stored, a
\* falling edge counts modulo m
countSection(sec, clk, m) ==
    [lastClk |-> clk,
     count |-> IF sec.lastClk = STATE_HIGH /\ clk = STATE_LOW
               THEN (sec.count + 1) % m
               ELSE sec.count]

\* count & mask ? HIGH : LOW, for mask = 2^b
Bit(count, b) ==
    IF (count \div (2 ^ b)) % 2 = 1 THEN STATE_HIGH ELSE STATE_LOW

counterUpdates(st) ==
    <<Upd(12, Bit(st.sectionA.count, 0)), Upd(9, Bit(st.sectionB.count, 0)),
      Upd(8, Bit(st.sectionB.count, 1)), Upd(11, Bit(st.sectionB.count, 2))>>

\* LS90.evaluate()
evaluateLS90(st, powered, in) ==
    IF ~powered THEN [st |-> st, updates |-> Floats(<<12, 9, 8, 11>>)]
    ELSE LET next ==
                 IF in[2] = STATE_HIGH /\ in[3] = STATE_HIGH
                 THEN [st EXCEPT !.sectionA.count = 0, !.sectionB.count = 0]
                 ELSE IF in[6] = STATE_HIGH /\ in[7] = STATE_HIGH
                 THEN [st EXCEPT !.sectionA.count = 1, !.sectionB.count = 4]
                 ELSE [sectionA |-> countSection(st.sectionA, in[14], 2),
                       sectionB |-> countSection(st.sectionB, in[1], 5)]
         IN [st |-> next, updates |-> counterUpdates(next)]

\* LS93.evaluate()
evaluateLS93(st, powered, in) ==
    IF ~powered THEN [st |-> st, updates |-> Floats(<<12, 9, 8, 11>>)]
    ELSE LET next ==
                 IF in[2] = STATE_HIGH /\ in[3] = STATE_HIGH
                 THEN [st EXCEPT !.sectionA.count = 0, !.sectionB.count = 0]
                 ELSE [sectionA |-> countSection(st.sectionA, in[14], 2),
                       sectionB |-> countSection(st.sectionB, in[1], 8)]
         IN [st |-> next, updates |-> counterUpdates(next)]

SeqKinds == {"LS74", "LS76", "LS90", "LS93"}

\* evaluate() of the part of the given kind
evaluatePowered(kind, st, in) ==
    IF kind = "LS74" THEN evaluateLS74(st, TRUE, in)
    ELSE IF kind = "LS76" THEN evaluateLS76(st, TRUE, in)
    ELSE IF kind = "LS90" THEN evaluateLS90(st, TRUE, in)
    ELSE evaluateLS93(st, TRUE, in)

evaluateSeq_latch(kind, st, powered, in) ==
    IF powered THEN evaluatePowered(kind, st, in)
    ELSE [st |-> evaluatePowered(kind, st, in).st,
          updates |-> Floats(<<12, 9, 8, 11>>)]

evaluateSeq(kind, st, powered, in) ==
    IF kind = "LS74" THEN evaluateLS74(st, powered, in)
    ELSE IF kind = "LS76" THEN evaluateLS76(st, powered, in)
    ELSE IF kind = "LS90" THEN evaluateLS90(st, powered, in)
    ELSE evaluateLS93(st, powered, in)

\* ---------------------------------------------------------------------
\* Sequential harness: one sequential part on the bench, the levels on its
\* pins and its power changed from outside, evaluate() called at any time
\* ---------------------------------------------------------------------
\* the INPUT and CLOCK pins of each part
SeqInputs(kind) ==
    IF kind = "LS74" THEN {1, 2, 3, 4, 10, 11, 12, 13}
    ELSE IF kind = "LS76" THEN {1, 2, 3, 4, 6, 10, 11, 12, 13, 14}
    ELSE IF kind = "LS90" THEN {1, 2, 3, 6, 7, 14}
    ELSE {1, 2, 3, 14}

\* the pins the bench drives: of a dual flip-flop all of the first
\* flip-flop, and clock and clear of the second; the rest float and read HIGH
SeqDriven(kind) ==
    IF kind = "LS74" THEN {1, 2, 3, 4, 11, 13}
    ELSE IF kind = "LS76" THEN {1, 2, 3, 4, 6, 12, 10}
    ELSE SeqInputs(kind)

InitSeq ==
    /\ part \in {[kind |-> k,
                  st |-> IF k \in {"LS74", "LS76"} THEN NewFlipFlops
                         ELSE NewCounter,
                  in |-> [p \in SeqInputs(k) |-> STATE_HIGH],
                  powered |-> FALSE,
                  updates |-> <<>>,
                  fresh |-> FALSE,
                  edge |-> FALSE] : k \in SeqKinds}
    /\ rvals = <<>>
    /\ rout = NONE
    /\ NewEngine
    /\ NoChip

\* pin p is the clock pin of the first flip-flop and its net goes to v
\* in the direction that clocks the flip-flop: LOW to HIGH on CLK1 of the
\* LS74, HIGH to LOW on CLK1 of the LS76
Triggers(p, v) ==
    \/ part.kind = "LS74" /\ p = 3 /\ part.in[p] = STATE_LOW
                          /\ v = STATE_HIGH
    \/ part.kind = "LS76" /\ p = 1 /\ part.in[p] = STATE_HIGH
                          /\ v = STATE_LOW

\* the net of pin p takes the level v; a short circuit (ERROR) is put on
\* clear and preset of the first flip-flop of the LS74.  edge tells that
\* the clock net of the first flip-flop made a clocking transition while
\* the chip was powered, since the evaluation before
SSetPin(p, v) ==
    /\ p \in SeqDriven(part.kind)
    /\ v = STATE_ERROR => (part.kind = "LS74" /\ p \in {1, 4})
    /\ part.in[p] # v
    /\ part' = [part EXCEPT !.in[p] = v, !.fresh = FALSE,
                            !.edge = @ \/ (part.powered /\ Triggers(p, v))]
    /\ UNCHANGED <<rvals, rout, schedVars, netVars, extVars, wireVars,
                   lastCall>>

\* the power nets change: isPowered() returns the opposite from now on
SPower ==
    /\ part' = [part EXCEPT !.powered = ~part.powered, !.fresh = FALSE]
    /\ UNCHANGED <<rvals, rout, schedVars, netVars, extVars, wireVars,
                   lastCall>>

SEvaluate ==
    /\ \E r \in {evaluateSeq(part.kind, part.st, part.powered, part.in)} :
          part' = [part EXCEPT !.st = r.st, !.updates = r.updates,
                               !.fresh = TRUE, !.edge = FALSE]
    /\ UNCHANGED <<rvals, rout, schedVars, netVars, extVars, wireVars,
                   lastCall>>

NextSeq ==
    \/ \E p \in 1..14, v \in {STATE_LOW, STATE_HIGH, STATE_ERROR} :
          SSetPin(p, v)
    \/ SPower
    \/ SEvaluate

SpecSeq == InitSeq /\ [][NextSeq]_vars

\* C16: an evaluation of a sequential part made while isPowered() is false
\* leaves the stored flip-flop bits and counter values as they were,
\* whatever its clock, preset, clear and reset pins read.
C16_UnpoweredKeepsState ==
    [][(SEvaluate /\ ~part.powered) => part'.st = part.st]_vars

\* a part that stores a bit or a count from earlier was evaluated without
\* power on levels that would change what it stores under power
C16_Witness ==
    /\ part.fresh
    /\ ~part.powered
    /\ part.updates = Floats(IF part.kind = "LS74" THEN <<5, 6, 9, 8>>
                             ELSE IF part.kind = "LS76" THEN <<15, 16, 9, 8>>
                             ELSE <<12, 9, 8, 11>>)
    /\ part.st \notin {NewFlipFlops, NewCounter}
    /\ \E st \in {evaluatePowered(part.kind, part.st, part.in).st} :
          IF part.kind \in {"LS74", "LS76"} THEN st.ff1.q # part.st.ff1.q
          ELSE st.sectionB.count # part.st.sectionB.count

\* C17: when an evaluation of the powered chip at time t gives its OUTPUT
\* pin a new value, the state of the net of that pin does not change
\* before time t + propDelay.
C17_OutputAfterDelay ==
    [][\A y1 \in States \ {STATE_FLOAT} :
          (/\ NTriggerEvaluation(y1)
           /\ validatePower(Eng).powered
           /\ outputStates'[3] # outputStates[3]
           /\ currentTime' < currentTime + propDelay)
          => heap'[pinNodes[3]].state = heap[pinNodes[3]].state]_vars

\* what an evaluation of the LS00 in ic-1 leaves in the output register
Evaluated(e) ==
    IF validatePower(e).powered
    THEN nand(getInputState(e, e.inputNodes["ic-1-pin-1"]), STATE_HIGH)
    ELSE STATE_FLOAT

\* C18: when evaluate() raises, triggerEvaluation throws nothing to its
\* caller, leaves the output register as it was and the flag evaluating
\* cleared, and the next triggerEvaluation evaluates the chip.
C18_RaiseIsContained ==
    [][CTimerEvaluateRaises =>
          /\ ~chipTriggerRaising(Fresh).thrown
          /\ outputStates' = outputStates
          /\ ~evaluating'
          /\ chipTrigger(Eng').outputStates[3] = Evaluated(Eng')]_vars

\* evaluate() raised at some time, and the register holds the LOW a
\* powered evaluation of the gate gave it
C18_Witness ==
    /\ lastCall.op = "raise"
    /\ ~evaluating
    /\ validatePower(Eng).powered
    /\ extVal["sw0"] = STATE_HIGH
    /\ HasChainWire("switch-0", "ic-1-pin-1")
    /\ outputStates[3] = STATE_LOW

\* ---------------------------------------------------------------------
\* The gate parts: LS00, LS02, LS04, LS08, LS32, LS86
\* ---------------------------------------------------------------------
\* the closures of the evaluate() methods; nand is the one of LS00
nor(a, b) ==
    IF a = STATE_ERROR \/ b = STATE_ERROR THEN STATE_ERROR
    ELSE LET or == IF a = STATE_HIGH \/ b = STATE_HIGH THEN STATE_HIGH
                   ELSE STATE_LOW
         IN IF or = STATE_HIGH THEN STATE_LOW ELSE STATE_HIGH

invert(a) ==
    IF a = STATE_ERROR THEN STATE_ERROR
    ELSE IF a = STATE_HIGH THEN STATE_LOW ELSE STATE_HIGH

andGate(a, b) ==
    IF a = STATE_ERROR \/ b = STATE_ERROR THEN STATE_ERROR
    ELSE IF a = STATE_HIGH /\ b = STATE_HIGH THEN STATE_HIGH ELSE STATE_LOW

or(a, b) ==
    IF a = STATE_ERROR \/ b = STATE_ERROR THEN STATE_ERROR
    ELSE IF a = STATE_HIGH \/ b = STATE_HIGH THEN STATE_HIGH ELSE STATE_LOW

xor(a, b) ==
    IF a = STATE_ERROR \/ b = STATE_ERROR THEN STATE_ERROR
    ELSE IF a # b THEN STATE_HIGH ELSE STATE_LOW

GateKinds == {"LS00", "LS02", "LS04", "LS08", "LS32", "LS86"}

\* the sections of a part, in the order of the updates evaluate() returns:
\* the input pins a and b (the one input of an inverter twice) and the
\* output pin y
Sec(a, b, y) == [a |-> a, b |-> b, y |-> y]

Sections(kind) ==
    IF kind = "LS02"
    THEN <<Sec(2, 3, 1), Sec(5, 6, 4), Sec(9, 10, 8), Sec(12, 13, 11)>>
    ELSE IF kind = "LS04"
    THEN <<Sec(1, 1, 2), Sec(3, 3, 4), Sec(5, 5, 6), Sec(9, 9, 8),
           Sec(11, 11, 10), Sec(13, 13, 12)>>
    ELSE <<Sec(1, 2, 3), Sec(4, 5, 6), Sec(9, 10, 8), Sec(12, 13, 11)>>

\* the closure evaluate() of the part applies to the inputs of a section
gate(kind, a, b) ==
    IF kind = "LS00" THEN nand(a, b)
    ELSE IF kind = "LS02" THEN nor(a, b)
    ELSE IF kind = "LS04" THEN invert(a)
    ELSE IF kind = "LS08" THEN andGate(a, b)
    ELSE IF kind = "LS32" THEN or(a, b)
    ELSE xor(a, b)

\* the array evaluate() returns under power: one update for each section
gateUpdates(kind, in) ==
    [i \in Idx(Sections(kind)) |->
        Upd(Sections(kind)[i].y,
            gate(kind, in[Sections(kind)[i].a], in[Sections(kind)[i].b]))]

unpoweredUpdates(kind) ==
    [i \in Idx(Sections(kind)) |-> Upd(Sections(kind)[i].y, STATE_FLOAT)]

evaluateGate_anyError(kind, powered, in) ==
    IF ~powered THEN unpoweredUpdates(kind)
    ELSE IF \E p \in DOMAIN in : in[p] = STATE_ERROR
    THEN [i \in Idx(Sections(kind)) |-> Upd(Sections(kind)[i].y, STATE_ERROR)]
    ELSE gateUpdates(kind, in)

\* evaluate() of the gate part of the given kind: LS00, LS02, LS04, LS08,
\* LS32 and LS86 differ in their closure and their pins only
evaluateGate(kind, powered, in) ==
    IF ~powered THEN unpoweredUpdates(kind)
    ELSE gateUpdates(kind, in)

\* ---------------------------------------------------------------------
\* Gate harness: one gate part on the bench with levels on its input
\* pins, evaluated once
\* ---------------------------------------------------------------------
GateInputs(kind) ==
    {Sections(kind)[i].a : i \in Idx(Sections(kind))}
        \cup {Sections(kind)[i].b : i \in Idx(Sections(kind))}

\* the states the bench puts on the net of a pin.  Error benches: LOW,
\* HIGH or ERROR on the first two sections, HIGH or ERROR on the others.
\* Table benches: LOW, HIGH or FLOAT on every pin.
GateLevels(kind, p) ==
    IF \E i \in {1, 2} : p \in {Sections(kind)[i].a, Sections(kind)[i].b}
    THEN {STATE_LOW, STATE_HIGH, STATE_ERROR}
    ELSE {STATE_HIGH, STATE_ERROR}

GateBenches(kind) ==
    {in \in [GateInputs(kind) -> {STATE_LOW, STATE_HIGH, STATE_ERROR}] :
        \A p \in GateInputs(kind) : in[p] \in GateLevels(kind, p)}
      \cup [GateInputs(kind) -> {STATE_LOW, STATE_HIGH, STATE_FLOAT}]

floatsHigh_asIs(state) == state

\* what getInputState returns for a pin whose net has the given state: a
\* floating input reads HIGH
floatsHigh(state) == IF state = STATE_FLOAT THEN STATE_HIGH ELSE state

InitGate ==
    /\ \E k \in GateKinds : \E in \in GateBenches(k) : \E pw \in BOOLEAN :
          part = [kind |-> k, in |-> in, powered |-> pw, updates |-> <<>>,
                  fresh |-> FALSE]
    /\ rvals = <<>>
    /\ rout = NONE
    /\ NewEngine
    /\ NoChip

GEvaluate ==
    /\ ~part.fresh
    /\ part' = [part EXCEPT
                   !.updates = evaluateGate(part.kind, part.powered,
                       [p \in DOMAIN part.in |-> floatsHigh(part.in[p])]),
                   !.fresh = TRUE]
    /\ UNCHANGED <<rvals, rout, schedVars, netVars, extVars, wireVars,
                   lastCall>>

NextGate == GEvaluate

SpecGate == InitGate /\ [][NextGate]_vars

\* C19: while a gate part is powered, the output its evaluate() proposes
\* for a section is ERROR iff an input of that section reads ERROR; an
\* ERROR on an input of another section has no part in it.
C19_SectionError ==
    (part.kind \in GateKinds /\ part.fresh /\ part.powered) =>
        /\ Len(part.updates) = Len(Sections(part.kind))
        /\ \A i \in Idx(Sections(part.kind)) :
              /\ part.updates[i].pin = Sections(part.kind)[i].y
              /\ (part.updates[i].state = STATE_ERROR) <=>
                    \/ part.in[Sections(part.kind)[i].a] = STATE_ERROR
                    \/ part.in[Sections(part.kind)[i].b] = STATE_ERROR

\* a powered part with ERROR on one input of its first section and on
\* both inputs of its last, and none on its second: the outputs proposed
\* are ERROR, a level, ..., ERROR
C19_Witness ==
    /\ part.kind \in GateKinds /\ part.fresh /\ part.powered
    /\ part.updates[1].state = STATE_ERROR
    /\ part.in[Sections(part.kind)[1].a] = STATE_ERROR
    /\ part.updates[2].state \in {STATE_LOW, STATE_HIGH}
    /\ part.updates[Len(part.updates)].state = STATE_ERROR

\* ---------------------------------------------------------------------
\* The decoders, multiplexers and the adder: LS138, LS47, LS151, LS153,
\* LS157, LS283
\* ---------------------------------------------------------------------
\* the same state on each of the pins, in the order of the array
Levels(pins, state) == [i \in Idx(pins) |-> Upd(pins[i], state)]

evaluateLS138_oneStrobe(powered, in) ==
    LET ys == <<15, 14, 13, 12, 11, 10, 9, 7>>
        enabled == in[6] = STATE_HIGH /\ in[4] = STATE_LOW
        select == (IF in[3] = STATE_HIGH THEN 4 ELSE 0)
                    + (IF in[2] = STATE_HIGH THEN 2 ELSE 0)
                    + (IF in[1] = STATE_HIGH THEN 1 ELSE 0)
    IN IF ~powered THEN Floats(ys)
       ELSE IF ~enabled THEN Levels(ys, STATE_HIGH)
       ELSE [i \in Idx(ys) |->
                Upd(ys[i], IF i - 1 = select THEN STATE_LOW ELSE STATE_HIGH)]

\* LS138.evaluate(): the outputs Y0..Y7 are on pins 15, 14, ..., 9, 7
evaluateLS138(powered, in) ==
    LET ys == <<15, 14, 13, 12, 11, 10, 9, 7>>
        enabled == /\ in[6] = STATE_HIGH
                   /\ in[4] = STATE_LOW
                   /\ in[5] = STATE_LOW
        select == (IF in[3] = STATE_HIGH THEN 4 ELSE 0)
                    + (IF in[2] = STATE_HIGH THEN 2 ELSE 0)
                    + (IF in[1] = STATE_HIGH THEN 1 ELSE 0)
    IN IF ~powered THEN Floats(ys)
       ELSE IF ~enabled THEN Levels(ys, STATE_HIGH)
       ELSE [i \in Idx(ys) |->
                Upd(ys[i], IF i - 1 = select THEN STATE_LOW ELSE STATE_HIGH)]

\* this.patterns of LS47: the segments a..g of the digits 0..9, then blank
patterns ==
    <<<<0, 0, 0, 0, 0, 0, 1>>,
      <<1, 0, 0, 1, 1, 1, 1>>,
      <<0, 0, 1, 0, 0, 1, 0>>,
      <<0, 0, 0, 0, 1, 1, 0>>,
      <<1, 0, 0, 1, 1, 0, 0>>,
      <<0, 1, 0, 0, 1, 0, 0>>,
      <<0, 1, 0, 0, 0, 0, 0>>,
      <<0, 0, 0, 1, 1, 1, 1>>,
      <<0, 0, 0, 0, 0, 0, 0>>,
      <<0, 0, 0, 0, 1, 0, 0>>,
      <<1, 1, 1, 1, 1, 1, 1>>>>

\* LS47.evaluate(): the segments a..g are on pins 13, 12, 11, 10, 9, 15, 14
evaluateLS47(powered, in) ==
    LET segs == <<13, 12, 11, 10, 9, 15, 14>>
        bcd == (IF in[6] = STATE_HIGH THEN 8 ELSE 0)
                 + (IF in[2] = STATE_HIGH THEN 4 ELSE 0)
                 + (IF in[1] = STATE_HIGH THEN 2 ELSE 0)
                 + (IF in[7] = STATE_HIGH THEN 1 ELSE 0)
        patternIndex == IF bcd <= 9 THEN bcd ELSE 10
        pattern == patterns[patternIndex + 1]
    IN IF ~powered THEN Floats(segs)
       ELSE IF in[3] = STATE_LOW THEN Levels(segs, STATE_LOW)
       ELSE IF in[4] = STATE_LOW THEN Levels(segs, STATE_HIGH)
       ELSE IF bcd = 0 /\ in[5] = STATE_LOW THEN Levels(segs, STATE_HIGH)
       ELSE [i \in Idx(segs) |->
                Upd(segs[i], IF pattern[i] = 0 THEN STATE_LOW
                             ELSE STATE_HIGH)]

\* LS151.evaluate(): D0..D7 are on pins 4, 3, 2, 1, 12, 11, 10, 9
evaluateLS151(powered, in) ==
    LET dataInputs == <<in[4], in[3], in[2], in[1],
                        in[12], in[11], in[10], in[9]>>
        select == (IF in[13] = STATE_HIGH THEN 4 ELSE 0)
                    + (IF in[14] = STATE_HIGH THEN 2 ELSE 0)
                    + (IF in[15] = STATE_HIGH THEN 1 ELSE 0)
        selected == dataInputs[select + 1]
    IN IF ~powered THEN Floats(<<5, 6>>)
       ELSE IF in[7] = STATE_HIGH
       THEN <<Upd(5, STATE_LOW), Upd(6, STATE_HIGH)>>
       ELSE <<Upd(5, selected),
              Upd(6, IF selected = STATE_HIGH THEN STATE_LOW
                     ELSE STATE_HIGH)>>

\* LS153.evaluate()
evaluateLS153(powered, in) ==
    LET select == (IF in[14] = STATE_HIGH THEN 2 ELSE 0)
                    + (IF in[2] = STATE_HIGH THEN 1 ELSE 0)
        c1 == <<in[6], in[5], in[4], in[3]>>
        c2 == <<in[10], in[11], in[12], in[13]>>
        y1 == IF in[1] = STATE_LOW THEN c1[select + 1] ELSE STATE_LOW
        y2 == IF in[15] = STATE_LOW THEN c2[select + 1] ELSE STATE_LOW
    IN IF ~powered THEN Floats(<<7, 9>>)
       ELSE <<Upd(7, y1), Upd(9, y2)>>

\* LS157.evaluate()
evaluateLS157(powered, in) ==
    LET selectB == in[1] = STATE_HIGH
    IN IF ~powered THEN Floats(<<4, 7, 9, 12>>)
       ELSE IF in[15] = STATE_HIGH
       THEN Levels(<<4, 7, 9, 12>>, STATE_LOW)
       ELSE <<Upd(4, IF selectB THEN in[3] ELSE in[2]),
              Upd(7, IF selectB THEN in[6] ELSE in[5]),
              Upd(9, IF selectB THEN in[10] ELSE in[11]),
              Upd(12, IF selectB THEN in[13] ELSE in[14])>>

\* 1 for a HIGH, 0 for every other level
One(state) == IF state = STATE_HIGH THEN 1 ELSE 0

\* the carry into bit i of LS283.evaluate(): C0 for the first bit, then
\* sum >> 1 of the bit before
RECURSIVE carryInto(_, _, _, _)
carryInto(a, b, c0, i) ==
    IF i = 1 THEN c0
    ELSE (a[i - 1] + b[i - 1] + carryInto(a, b, c0, i - 1)) \div 2

evaluateLS283_noRipple(powered, in) ==
    LET a == <<One(in[1]), One(in[3]), One(in[5]), One(in[7])>>
        b == <<One(in[2]), One(in[4]), One(in[6]), One(in[11])>>
        c0 == One(in[15])
        sums == [i \in 1..4 |-> (a[i] + b[i] + (IF i = 1 THEN c0 ELSE 0)) % 2]
        carry == carryInto(a, b, c0, 5)
        level(bit) == IF bit # 0 THEN STATE_HIGH ELSE STATE_LOW
    IN IF ~powered THEN Floats(<<13, 12, 10, 9, 14>>)
       ELSE <<Upd(13, level(sums[1])), Upd(12, level(sums[2])),
              Upd(10, level(sums[3])), Upd(9, level(sums[4])),
              Upd(14, level(carry))>>

\* LS283.evaluate()
evaluateLS283(powered, in) ==
    LET a == <<One(in[1]), One(in[3]), One(in[5]), One(in[7])>>
        b == <<One(in[2]), One(in[4]), One(in[6]), One(in[11])>>
        c0 == One(in[15])
        sums == [i \in 1..4 |-> (a[i] + b[i] + carryInto(a, b, c0, i)) % 2]
        carry == carryInto(a, b, c0, 5)
        level(bit) == IF bit # 0 THEN STATE_HIGH ELSE STATE_LOW
    IN IF ~powered THEN Floats(<<13, 12, 10, 9, 14>>)
       ELSE <<Upd(13, level(sums[1])), Upd(12, level(sums[2])),
              Upd(10, level(sums[3])), Upd(9, level(sums[4])),
              Upd(14, level(carry))>>

\* ---------------------------------------------------------------------
\* Part harness: one decoder, multiplexer, adder or dual flip-flop on the
\* bench with levels on its input pins, evaluated once
\* ---------------------------------------------------------------------
PartKinds ==
    {"LS138", "LS47", "LS151", "LS153", "LS157", "LS283", "LS74", "LS76"}

\* the INPUT and CLOCK pins of each part
PartInputs(kind) ==
    IF kind = "LS138" THEN 1..6
    ELSE IF kind = "LS47" THEN 1..7
    ELSE IF kind = "LS151" THEN {1, 2, 3, 4, 7, 9, 10, 11, 12, 13, 14, 15}
    ELSE IF kind = "LS153"
    THEN {1, 2, 3, 4, 5, 6, 10, 11, 12, 13, 14, 15}
    ELSE IF kind = "LS157" THEN {1, 2, 3, 5, 6, 10, 11, 13, 14, 15}
    ELSE IF kind = "LS283" THEN {1, 2, 3, 4, 5, 6, 7, 11, 15}
    ELSE SeqInputs(kind)

\* the pins the bench drives; the rest float and read HIGH.  LS47: B, LT,
\* BI, RBI and A; LS151: strobe, S0, D6 and D7; LS153: G1, S0, C3 and C2
\* of the first half; LS157: strobe, select, 1A and 1B; LS283: A1, B1, A2
\* and C0; of a flip-flop part the pins of the first flip-flop
PartDriven(kind) ==
    IF kind = "LS138" THEN 1..6
    ELSE IF kind = "LS47" THEN {1, 3, 4, 5, 7}
    ELSE IF kind = "LS151" THEN {7, 9, 10, 15}
    ELSE IF kind = "LS153" THEN {1, 2, 3, 4}
    ELSE IF kind = "LS157" THEN {1, 2, 3, 15}
    ELSE IF kind = "LS283" THEN {1, 2, 3, 15}
    ELSE IF kind = "LS74" THEN {1, 2, 3, 4}
    ELSE {1, 2, 3, 4, 6}

\* the levels read on the pins: LOW, HIGH or ERROR on the driven pins and
\* HIGH on the rest; of the adder also every combination of LOW and HIGH
PartBenches(kind) ==
    {in \in [PartInputs(kind) -> {STATE_LOW, STATE_HIGH, STATE_ERROR}] :
        \A p \in PartInputs(kind) \ PartDriven(kind) : in[p] = STATE_HIGH}
      \cup (IF kind = "LS283"
            THEN [PartInputs(kind) -> {STATE_LOW, STATE_HIGH}]
            ELSE {})

\* internalState of the part: of a flip-flop part as its constructor
\* leaves it, or with the clock level an earlier evaluate() stored (LOW
\* ahead of the rising edge of LS74, HIGH ahead of the falling edge of
\* LS76); the other parts store nothing
PartStates(kind) ==
    IF kind = "LS74"
    THEN {NewFlipFlops, [NewFlipFlops EXCEPT !.ff1.lastClk = STATE_LOW]}
    ELSE IF kind = "LS76"
    THEN {NewFlipFlops, [NewFlipFlops EXCEPT !.ff1.lastClk = STATE_HIGH]}
    ELSE {<<>>}

\* evaluate() of the part of the given kind
evaluatePart(kind, st, powered, in) ==
    IF kind = "LS74" THEN evaluateLS74(st, powered, in)
    ELSE IF kind = "LS76" THEN evaluateLS76(st, powered, in)
    ELSE [st |-> st,
          updates |-> IF kind = "LS138" THEN evaluateLS138(powered, in)
                      ELSE IF kind = "LS47" THEN evaluateLS47(powered, in)
                      ELSE IF kind = "LS151" THEN evaluateLS151(powered, in)
                      ELSE IF kind = "LS153" THEN evaluateLS153(powered, in)
                      ELSE IF kind = "LS157" THEN evaluateLS157(powered, in)
                      ELSE evaluateLS283(powered, in)]

InitPart ==
    /\ \E k \in PartKinds : \E in \in PartBenches(k) :
       \E st \in PartStates(k) : \E pw \in BOOLEAN :
          part = [kind |-> k, st |-> st, in |-> in, powered |-> pw,
                  updates |-> <<>>, fresh |-> FALSE]
    /\ rvals = <<>>
    /\ rout = NONE
    /\ NewEngine
    /\ NoChip

PEvaluate ==
    /\ ~part.fresh
    /\ \E r \in {evaluatePart(part.kind, part.st, part.powered, part.in)} :
          part' = [part EXCEPT !.st = r.st, !.updates = r.updates,
                               !.fresh = TRUE, !.edge = FALSE]
    /\ UNCHANGED <<rvals, rout, schedVars, netVars, extVars, wireVars,
                   lastCall>>

NextPart == PEvaluate

SpecPart == InitPart /\ [][NextPart]_vars

\* the i-th output of the part depends on input pin p: with every other
\* pin and the stored state as they are, it differs between p LOW and p HIGH
Depends(p, i) ==
    evaluatePart(part.kind, part.st, TRUE,
                 [part.in EXCEPT ![p] = STATE_LOW]).updates[i].state
      # evaluatePart(part.kind, part.st, TRUE,
                     [part.in EXCEPT ![p] = STATE_HIGH]).updates[i].state

\* C20: when evaluate() of a powered LS138, LS47, LS151, LS153, LS157,
\* LS283, LS74 or LS76 reads ERROR on an input pin, every output whose
\* value depends on that input is proposed as ERROR.
C20_ErrorInputErrorOutput ==
    [][(PEvaluate /\ part.powered) =>
          \A p \in PartInputs(part.kind) :
             part.in[p] = STATE_ERROR =>
                \A i \in Idx(part'.updates) :
                   Depends(p, i) => part'.updates[i].state = STATE_ERROR]_vars

\* the truth value of the gate of a part on two truth values (the one
\* input of an inverter is given twice)
Truth(kind, a, b) ==
    IF kind = "LS00" THEN ~(a /\ b)
    ELSE IF kind = "LS02" THEN ~(a \/ b)
    ELSE IF kind = "LS04" THEN ~a
    ELSE IF kind = "LS08" THEN a /\ b
    ELSE IF kind = "LS32" THEN a \/ b
    ELSE a # b

\* a net state read as a truth value: HIGH and FLOAT are true, LOW false
Reads(state) == state \in {STATE_HIGH, STATE_FLOAT}

\* C21: for every section of a gate part and every combination of LOW,
\* HIGH and FLOAT on its input nets, FLOAT being read as HIGH, the output
\* proposed under power is the NAND, NOR, NOT, AND, OR or XOR of the
\* inputs, and without power it is FLOAT.
C21_TruthTables ==
    (/\ part.kind \in GateKinds /\ part.fresh
     /\ \A p \in DOMAIN part.in : part.in[p] # STATE_ERROR) =>
        /\ Len(part.updates) = Len(Sections(part.kind))
        /\ \A i \in Idx(Sections(part.kind)) :
              /\ part.updates[i].pin = Sections(part.kind)[i].y
              /\ part.updates[i].state =
                    IF ~part.powered THEN STATE_FLOAT
                    ELSE IF Truth(part.kind,
                                  Reads(part.in[Sections(part.kind)[i].a]),
                                  Reads(part.in[Sections(part.kind)[i].b]))
                    THEN STATE_HIGH ELSE STATE_LOW

\* a powered LS04 whose first input floats proposes LOW for its first
\* output and HIGH for the second, whose input is LOW
C21_Witness ==
    /\ part.kind = "LS04" /\ part.fresh /\ part.powered
    /\ part.in[1] = STATE_FLOAT
    /\ part.in[3] = STATE_LOW
    /\ part.updates[1] = Upd(2, STATE_LOW)
    /\ part.updates[2] = Upd(4, STATE_HIGH)

\* the state proposed for a pin by the last evaluate() of the part
Proposed(pin) ==
    part.updates[CHOOSE i \in Idx(part.updates) :
                    part.updates[i].pin = pin].state

\* a part of the kind was evaluated under power with LOW or HIGH read on
\* every input pin
Clean(kind) ==
    /\ part.kind = kind /\ part.fresh /\ part.powered
    /\ \A p \in DOMAIN part.in : part.in[p] \in {STATE_LOW, STATE_HIGH}

\* C22: a powered LS138 with G1 HIGH and G2A, G2B LOW proposes LOW for
\* exactly the output Y[C*4 + B*2 + A] and HIGH for the other seven; in
\* every other enable combination it proposes HIGH for all eight.
C22_DecoderOneLow ==
    Clean("LS138") =>
        LET Y == <<15, 14, 13, 12, 11, 10, 9, 7>>
            index == 4 * One(part.in[3]) + 2 * One(part.in[2])
                       + One(part.in[1])
            asserted == /\ part.in[6] = STATE_HIGH
                        /\ part.in[4] = STATE_LOW
                        /\ part.in[5] = STATE_LOW
        IN /\ Len(part.updates) = 8
           /\ \A i \in 0..7 :
                 Proposed(Y[i + 1]) =
                    IF asserted /\ i = index THEN STATE_LOW ELSE STATE_HIGH

\* an enabled decoder with C, A HIGH and B LOW: Y5 (pin 10) alone is LOW
C22_Witness ==
    /\ Clean("LS138")
    /\ part.in = (1 :> STATE_HIGH @@ 2 :> STATE_LOW @@ 3 :> STATE_HIGH
                    @@ 4 :> STATE_LOW @@ 5 :> STATE_LOW @@ 6 :> STATE_HIGH)
    /\ Proposed(10) = STATE_LOW
    /\ Proposed(15) = STATE_HIGH

\* C23: a powered LS283 proposes sums and a carry with
\* SUM1 + 2*SUM2 + 4*SUM3 + 8*SUM4 + 16*C4 = A + B + C0, A1 and B1 being
\* the least significant bits and HIGH counting 1, LOW 0.
C23_AdderSum ==
    Clean("LS283") =>
        LET A == One(part.in[1]) + 2 * One(part.in[3])
                   + 4 * One(part.in[5]) + 8 * One(part.in[7])
            B == One(part.in[2]) + 2 * One(part.in[4])
                   + 4 * One(part.in[6]) + 8 * One(part.in[11])
        IN /\ \A pin \in {13, 12, 10, 9, 14} :
                 Proposed(pin) \in {STATE_LOW, STATE_HIGH}
           /\ One(Proposed(13)) + 2 * One(Proposed(12))
                 + 4 * One(Proposed(10)) + 8 * One(Proposed(9))
                 + 16 * One(Proposed(14))
                = A + B + One(part.in[15])

\* A = 0101, B = 0011, C0 = 0 gives SUM = 1000 and C4 = 0
C23_Witness ==
    /\ Clean("LS283")
    /\ part.in = (1 :> STATE_HIGH @@ 3 :> STATE_LOW @@ 5 :> STATE_HIGH
                    @@ 7 :> STATE_LOW @@ 2 :> STATE_HIGH @@ 4 :> STATE_HIGH
                    @@ 6 :> STATE_LOW @@ 11 :> STATE_LOW @@ 15 :> STATE_LOW)
    /\ Proposed(13) = STATE_LOW /\ Proposed(12) = STATE_LOW
    /\ Proposed(10) = STATE_LOW /\ Proposed(9) = STATE_HIGH
    /\ Proposed(14) = STATE_LOW

\* the next Q of an LS74 flip-flop as the claim C24 gives it
NextQ(ff, clr, d, clk, pr) ==
    IF clr = STATE_LOW /\ pr = STATE_HIGH THEN STATE_LOW
    ELSE IF pr = STATE_LOW /\ clr \in {STATE_HIGH, STATE_LOW} THEN STATE_HIGH
    ELSE IF ff.lastClk = STATE_LOW /\ clk = STATE_HIGH THEN d
    ELSE ff.q

\* C24: every powered evaluation of an LS74 stores and proposes for each
\* flip-flop the next Q: LOW if CLR is LOW and PR HIGH; HIGH if PR is LOW
\* with CLR HIGH or LOW; otherwise D if the clock level sampled before is
\* LOW and the one read now is HIGH; otherwise the Q it had.
C24_NextQ ==
    [][(SEvaluate /\ part.kind = "LS74" /\ part.powered) =>
          /\ part'.st.ff1.q = NextQ(part.st.ff1, part.in[1], part.in[2],
                                    part.in[3], part.in[4])
          /\ part'.st.ff2.q = NextQ(part.st.ff2, part.in[13], part.in[12],
                                    part.in[11], part.in[10])
          /\ part'.updates[1] = Upd(5, part'.st.ff1.q)
          /\ part'.updates[3] = Upd(9, part'.st.ff2.q)]_vars

\* the second flip-flop, whose preset is never LOW, holds a HIGH it took
\* from D on a rising edge, while the first is held LOW by its clear with
\* its clock HIGH
C24_Witness ==
    /\ part.kind = "LS74" /\ part.fresh /\ part.powered
    /\ part.st.ff2.q = STATE_HIGH
    /\ part.in[1] = STATE_LOW /\ part.in[4] = STATE_HIGH
    /\ part.in[3] = STATE_HIGH
    /\ part.st.ff1.q = STATE_LOW

\* C25: after an evaluation of a powered LS74 or LS76 the Q and the Q-bar
\* proposed for each flip-flop are complementary, one HIGH and the other
\* LOW, whatever D, J, K, preset and clear read.
C25_Complementary ==
    (part.kind \in {"LS74", "LS76"} /\ part.fresh /\ part.powered) =>
        /\ {part.updates[1].state, part.updates[2].state}
              = {STATE_LOW, STATE_HIGH}
        /\ {part.updates[3].state, part.updates[4].state}
              = {STATE_LOW, STATE_HIGH}

\* the Q of an LS76 flip-flop after an evaluation with preset and clear
\* HIGH, as the claim C26 gives it: changed on a falling edge only
ClockedQ(ff, clk, j, k) ==
    IF ~(ff.lastClk = STATE_HIGH /\ clk = STATE_LOW) THEN ff.q
    ELSE IF j = STATE_LOW /\ k = STATE_LOW THEN ff.q
    ELSE IF j = STATE_HIGH /\ k = STATE_LOW THEN STATE_HIGH
    ELSE IF j = STATE_LOW /\ k = STATE_HIGH THEN STATE_LOW
    ELSE IF ff.q = STATE_LOW THEN STATE_HIGH ELSE STATE_LOW

\* C26: an evaluation of a powered LS76 with preset and clear of a
\* flip-flop HIGH changes its Q only when the clock sampled before is
\* HIGH and the one read now is LOW, and then keeps it for J = K = LOW,
\* sets it for J HIGH and K LOW, resets it for J LOW and K HIGH and
\* inverts it for J = K = HIGH, so that falling edges with J = K = HIGH
\* give HIGH, LOW, HIGH, LOW, ... from LOW.
C26_FallingEdgeTable ==
    [][(SEvaluate /\ part.kind = "LS76" /\ part.powered) =>
          /\ (part.in[2] = STATE_HIGH /\ part.in[3] = STATE_HIGH) =>
                /\ part'.st.ff1.q = ClockedQ(part.st.ff1, part.in[1],
                                             part.in[4], part.in[6])
                /\ part'.updates[1] = Upd(15, part'.st.ff1.q)
          /\ (part.in[11] = STATE_HIGH /\ part.in[10] = STATE_HIGH) =>
                /\ part'.st.ff2.q = ClockedQ(part.st.ff2, part.in[12],
                                             part.in[14], part.in[13])
                /\ part'.updates[3] = Upd(9, part'.st.ff2.q)]_vars

\* the second flip-flop, whose preset, J and K float HIGH, was toggled to
\* HIGH by a falling edge; the first, with J HIGH and K LOW, holds a HIGH
\* with preset and clear HIGH
C26_Witness ==
    /\ part.kind = "LS76" /\ part.fresh /\ part.powered
    /\ part.st.ff2.q = STATE_HIGH
    /\ part.in[10] = STATE_HIGH
    /\ part.st.ff2.lastClk = STATE_LOW
    /\ part.st.ff1.q = STATE_HIGH
    /\ part.in[2] = STATE_HIGH /\ part.in[3] = STATE_HIGH
    /\ part.in[4] = STATE_HIGH /\ part.in[6] = STATE_LOW

\* C30: resolve() on a net, with the calls of the drivers it makes,
\* changes no state: no cached net state, no listener call, no event.
C30_ResolveIsPure ==
    \A n \in nodes : \A r \in {nodeResolve(Eng, n)} :
        /\ r.e.heap = heap
        /\ r.e.calls = calls
        /\ r.e.eventQueue = eventQueue
        /\ r.e = Eng

\* ---------------------------------------------------------------------
\* Circuits: chips wired to each other and to the clock generator, under
\* power.  The power nets are resolved HIGH and LOW and stay so: the
\* update() calls of validatePower change nothing and isPowered() is true.
\* ---------------------------------------------------------------------
\* ring1: three sections of one LS04 in a ring; ring3: the first sections
\* of three LS04 in a ring; toggle: an LS74 with D1 on its own Q-bar 1 and
\* CLK1 on the clock; LS90, LS93: QA on CKB, CKA on the clock, the reset
\* inputs on the ground rail.  The chips of a circuit, by socket:
Chips(kind) == IF kind = "ring3" THEN {1, 2, 3} ELSE {1}

ChipKind(kind) ==
    IF kind \in {"ring1", "ring3", "series"} THEN "LS04"
    ELSE IF kind = "toggle" THEN "LS74"
    ELSE kind

\* the nets that join pins: the driver of the net (an OUTPUT pin of a
\* chip, or <<0, 0>> for the driver of the clock generator) and the INPUT
\* or CLOCK pin whose listener the net holds
Net(name, drv, chip, pin) ==
    [net |-> name, drv |-> drv, chip |-> chip, pin |-> pin]

Wiring(kind) ==
    IF kind = "ring1"
    THEN {Net("a", <<1, 2>>, 1, 3), Net("b", <<1, 4>>, 1, 5),
          Net("c", <<1, 6>>, 1, 1)}
    ELSE IF kind = "ring3"
    THEN {Net("a", <<1, 2>>, 2, 1), Net("b", <<2, 2>>, 3, 1),
          Net("c", <<3, 2>>, 1, 1)}
    ELSE IF kind = "toggle"
    THEN {Net("d", <<1, 6>>, 1, 2), Net("clk", <<0, 0>>, 1, 3)}
    ELSE IF kind = "series"
    THEN {Net("a", <<1, 2>>, 1, 3), Net("clk", <<0, 0>>, 1, 1)}
    ELSE {Net("qa", <<1, 12>>, 1, 1), Net("clk", <<0, 0>>, 1, 14)}

\* the OUTPUT pins of a part
OutputPins(chipKind) ==
    IF chipKind = "LS04" THEN {2, 4, 6, 8, 10, 12}
    ELSE IF chipKind = "LS74" THEN {5, 6, 8, 9}
    ELSE {8, 9, 11, 12}

\* getInputState on every input pin of chip c: the state of the net of a
\* wired pin, LOW on the reset inputs of a counter, and HIGH on a pin left
\* on its own floating net
readPins(b, c) ==
    [p \in IF ChipKind(b.kind) = "LS04" THEN GateInputs("LS04")
           ELSE SeqInputs(ChipKind(b.kind)) |->
        IF \E w \in Wiring(b.kind) : w.chip = c /\ w.pin = p
        THEN floatsHigh(b.net[(CHOOSE w \in Wiring(b.kind) :
                                   w.chip = c /\ w.pin = p).net])
        ELSE IF ChipKind(b.kind) \in {"LS90", "LS93"} /\ p \in {2, 3, 6, 7}
        THEN STATE_LOW
        ELSE floatsHigh(STATE_FLOAT)]

\* evaluate() of chip c
evaluateChip(b, c) ==
    IF ChipKind(b.kind) = "LS04"
    THEN [st |-> b.st[c],
          updates |-> evaluateGate("LS04", TRUE, readPins(b, c))]
    ELSE evaluateSeq(ChipKind(b.kind), b.st[c], TRUE, readPins(b, c))

RECURSIVE updateNet(_, _)
RECURSIVE propagateChip(_, _, _)
RECURSIVE triggerChip(_, _)

updateNet_silent(b, w) ==
    LET val == resolve(<<IF w.drv = <<0, 0>> THEN b.clock
                         ELSE b.out[w.drv]>>)
        old == b.net[w.net]
    IN IF val = old THEN [b |-> b, changed |-> FALSE]
       ELSE [b |-> [b EXCEPT !.net[w.net] = val,
                             !.edges = IF /\ w.net = "clk"
                                          /\ old = STATE_LOW
                                          /\ val = STATE_HIGH
                                       THEN @ + 1 ELSE @],
             changed |-> TRUE]

\* node.update() of the net w: resolve over its one driver (the clock
\* state, or the output register the closure of registerDrivers reads);
\* on a change the state is stored and the listener, triggerEvaluation of
\* w.chip, is called.  edges counts the LOW-to-HIGH changes of the clock net.
updateNet(b, w) ==
    LET val == resolve(<<IF w.drv = <<0, 0>> THEN b.clock
                         ELSE b.out[w.drv]>>)
        old == b.net[w.net]
    IN IF val = old THEN [b |-> b, changed |-> FALSE]
       ELSE Let([b EXCEPT !.net[w.net] = val,
                          !.edges = IF /\ w.net = "clk"
                                       /\ old = STATE_LOW
                                       /\ val = STATE_HIGH
                                    THEN @ + 1 ELSE @],
                LAMBDA set : [b |-> triggerChip(set, w.chip),
                              changed |-> TRUE])

\* propagate(updates) of chip c.  toggles counts the changes of the
\* register of Q1 of the LS74 between LOW and HIGH.
propagateChip(b, c, updates) ==
    IF updates = <<>> THEN b
    ELSE LET u == Head(updates)
             currentState == b.out[<<c, u.pin>>]
         IN IF currentState = u.state
            THEN propagateChip(b, c, Tail(updates))
            ELSE Let([b EXCEPT !.out[<<c, u.pin>>] = u.state,
                               !.toggles =
                                   IF /\ b.kind = "toggle" /\ u.pin = 5
                                      /\ currentState # STATE_FLOAT
                                   THEN @ + 1 ELSE @],
                     LAMBDA set :
                 IF \E w \in Wiring(b.kind) : w.drv = <<c, u.pin>>
                 THEN Let(CHOOSE w \in Wiring(b.kind) : w.drv = <<c, u.pin>>,
                          LAMBDA w :
                      Let(updateNet(set, w), LAMBDA r :
                          propagateChip(IF r.changed THEN r.b
                                        ELSE triggerChip(r.b, w.chip),
                                        c, Tail(updates))))
                 ELSE propagateChip(set, c, Tail(updates)))

\* triggerEvaluation() of chip c
triggerChip(b, c) ==
    IF b.evaluating[c] THEN b
    ELSE Let(evaluateChip(b, c), LAMBDA r :
         Let(propagateChip([b EXCEPT !.evaluating[c] = TRUE,
                                     !.st[c] = r.st], c, r.updates),
             LAMBDA done : [done EXCEPT !.evaluating[c] = FALSE]))

\* the circuit as placed and wired: the output registers FLOAT as
\* registerDrivers leaves them, the clock LOW and its net resolved, the
\* internal state of the constructors, no evaluation made yet
NewCircuit(kind) ==
    [kind |-> kind,
     net |-> [n \in {w.net : w \in Wiring(kind)} |->
                 IF n = "clk" THEN STATE_LOW ELSE STATE_FLOAT],
     out |-> [o \in Chips(kind) \X OutputPins(ChipKind(kind)) |->
                 STATE_FLOAT],
     st |-> [c \in Chips(kind) |->
                IF ChipKind(kind) = "LS04" THEN <<>>
                ELSE IF ChipKind(kind) = "LS74" THEN NewFlipFlops
                ELSE NewCounter],
     evaluating |-> [c \in Chips(kind) |-> FALSE],
     started |-> [c \in Chips(kind) |-> FALSE],
     clock |-> STATE_LOW,
     pending |-> FALSE,
     time |-> 0,
     ticks |-> 0,
     edges |-> 0,
     toggles |-> 0]

InitCircuit ==
    /\ part \in {NewCircuit(k) :
                    k \in {"ring1", "ring3", "series", "toggle", "LS90",
                          "LS93"}}
    /\ rvals = <<>>
    /\ rout = NONE
    /\ NewEngine
    /\ NoChip

\* the timer placeIC sets for chip c fires: triggerEvaluation()
CTimer(c) ==
    /\ c \in Chips(part.kind)
    /\ ~part.started[c]
    /\ \E b \in {triggerChip(part, c)} :
          part' = [b EXCEPT !.started[c] = TRUE]
    /\ UNCHANGED <<rvals, rout, schedVars, netVars, extVars, wireVars,
                   lastCall>>

\* the interval of the clock generator fires, after the timers of the
\* placement and with no update of its net pending: clockState flips and
\* an update of the clock net is scheduled at delay 0
CTick ==
    /\ \E w \in Wiring(part.kind) : w.net = "clk"
    /\ \A c \in Chips(part.kind) : part.started[c]
    /\ ~part.pending
    /\ part.ticks < MaxTicks
    /\ part' = [part EXCEPT
                   !.clock = IF @ = STATE_HIGH THEN STATE_LOW ELSE STATE_HIGH,
                   !.pending = TRUE,
                   !.ticks = @ + 1]
    /\ UNCHANGED <<rvals, rout, schedVars, netVars, extVars, wireVars,
                   lastCall>>

\* step(dt): the pending update of the clock net runs, time advances
CStepBy(dt) ==
    /\ part.time + dt <= MaxCircuitTime
    /\ \E b \in {IF part.pending
                 THEN updateNet(part, CHOOSE w \in Wiring(part.kind) :
                                          w.net = "clk").b
                 ELSE part} :
          part' = [b EXCEPT !.pending = FALSE, !.time = @ + dt]
    /\ UNCHANGED <<rvals, rout, schedVars, netVars, extVars, wireVars,
                   lastCall>>

NextCircuit ==
    \/ \E c \in {1, 2, 3} : CTimer(c)
    \/ CTick
    \/ \E dt \in {0, propDelay} : CStepBy(dt)

SpecCircuit == InitCircuit /\ [][NextCircuit]_vars

\* QD, QC, QB, QA of the counter read as a binary number
Reading ==
    One(part.out[<<1, 12>>]) + 2 * One(part.out[<<1, 9>>])
      + 4 * One(part.out[<<1, 8>>]) + 8 * One(part.out[<<1, 11>>])

\* C27: a powered LS90 or LS93 with QA on CKB, the resets inactive and
\* the clock on CKA, starting from count 0, reads k mod 10 (LS90) or
\* k mod 16 (LS93) on QD, QC, QB, QA after k complete HIGH-then-LOW clock
\* cycles, the pending events drained.
C27_RippleCount ==
    (/\ part.kind \in {"LS90", "LS93"}
     /\ part.started[1]
     /\ part.clock = STATE_LOW /\ ~part.pending) =>
        Reading = (part.ticks \div 2)
                    % (IF part.kind = "LS90" THEN 10 ELSE 16)

\* C28: with D1 of a powered LS74 on its own Q-bar 1 and preset and clear
\* HIGH, Q1 changes once for each LOW-to-HIGH change of the CLK1 net and
\* at no other event: after n rising edges Q1 has toggled n times.
C28_ToggleOncePerEdge ==
    part.kind = "toggle" => part.toggles = part.edges

\* ten rising edges were drained and Q1 toggled ten times, ending LOW
C28_Witness ==
    /\ part.kind = "toggle"
    /\ part.edges = 10
    /\ part.toggles = 10
    /\ part.out[<<1, 5>>] = STATE_LOW
    /\ part.out[<<1, 6>>] = STATE_HIGH

\* C29: a ring of three powered inverters, of one LS04 or of three, never
\* settles: once the inverters were evaluated, logical time does not
\* advance by the propagation delay of 10 ns without an output net of the
\* ring changing.
C29_RingOscillates ==
    [][(/\ part.kind \in {"ring1", "ring3"}
        /\ \A c \in Chips(part.kind) : part.started[c]
        /\ part'.time >= part.time + propDelay)
          => part'.net # part.net]_vars

\* ---------------------------------------------------------------------
\* Re-entrant triggers
\* ---------------------------------------------------------------------
\* the rail nets the power pins of the LS00 in ic-1 are bound to
VccNet == pinNodes[vccPin]
GndNet == pinNodes[gndPin]

\* C31: a triggerEvaluation made while the chip is evaluating returns at
\* once: evaluate is not called, no net is updated, no listener runs, the
\* output register is as it was; between calls the flag is false, and the
\* next triggerEvaluation evaluates the chip.
C31_NestedTriggerDropped ==
    /\ ~evaluating
    /\ \A e0 \in {[Fresh EXCEPT !.evaluating = TRUE]} : chipTrigger(e0) = e0
    /\ chipTrigger(Fresh).outputStates[3] = Evaluated(Fresh)
    /\ ~chipTrigger(Fresh).evaluating

\* the power button was pressed: the listener of the VCC net started an
\* evaluation, whose isPowered() updated the GND net, whose listener
\* called triggerEvaluation again; the register holds what the outer
\* evaluation proposed
C31_Witness ==
    /\ sysPower
    /\ ~evaluating
    /\ Len(calls) >= 2
    /\ calls[1].listener = "evalA" /\ calls[1].node = VccNet
    /\ \E j \in 2..Len(calls) :
          calls[j].listener = "evalA" /\ calls[j].node = GndNet
    /\ outputStates[3] = Evaluated(Eng)
    /\ outputStates[3] \in {STATE_LOW, STATE_HIGH}

\* ---------------------------------------------------------------------
\* Listener harness: the engine of the net harness, with the calls made on
\* net 4: a driver, the listeners l1 and relay, updates of the net
\* ---------------------------------------------------------------------
NextListen ==
    \/ NAddDriver(4, "dA")
    \/ \E l \in {"l1", "relay"} : NAddListener(4, l)
    \/ \E v \in {STATE_LOW, STATE_HIGH, STATE_FLOAT} : NSetDriver("dA", v)
    \/ NScheduleNodeUpdate(4)
    \/ NStep
    \/ NPower

SpecListen == InitNet /\ [][NextListen]_vars

\* C32: the notification loop of a transition of net 4 invokes only the
\* listeners the net had when the transition began: a listener added by
\* a listener during the notification gets the initial call of
\* addListener and no call of the loop.
C32_LateListenerSkipped ==
    [][\A i \in Idx(calls') :
          (calls'[i].node = 4 /\ calls'[i].how = "update")
              => calls'[i].listener \in ValSet(heap[4].listeners)]_vars

\* ---------------------------------------------------------------------
\* The clock levels a sequential part remembers
\* ---------------------------------------------------------------------
\* the levels on the clock pins of the part, first and second section
ClockLevels(kind, in) ==
    IF kind = "LS74" THEN <<in[3], in[11]>>
    ELSE IF kind = "LS76" THEN <<in[1], in[12]>>
    ELSE <<in[14], in[1]>>

\* the lastClk fields of the internal state, first and second section
LastClocks(kind, st) ==
    IF kind \in {"LS74", "LS76"} THEN <<st.ff1.lastClk, st.ff2.lastClk>>
    ELSE <<st.sectionA.lastClk, st.sectionB.lastClk>>

\* C33: every powered evaluation of a sequential part stores the level of
\* each clock pin as that pin's lastClk, also while preset, clear, the
\* R0 reset or the R9 set is active.
C33_LastClockStored ==
    [][(SEvaluate /\ part.powered)
          => LastClocks(part.kind, part'.st)
                 = ClockLevels(part.kind, part.in)]_vars

\* ---------------------------------------------------------------------
\* Clock harness: the engine with the net of one clock generator after
\* registerClock, a listener on the net, setPower(true) and the step
\* that ran the first updates; the interval of the generator and the
\* simulation loop run at their own paces
\* ---------------------------------------------------------------------
InitClock ==
    /\ eventQueue = <<>>
    /\ currentTime = 0
    /\ nodes = {1}
    /\ nodeCounter = 1
    /\ heap = <<[state |-> STATE_LOW, drivers |-> <<"clk">>,
                 listeners |-> <<"l1">>]>>
    /\ outputStates = [p \in OutPins |-> STATE_FLOAT]
    /\ pinNodes = [p \in ChipPins |-> NULL]
    /\ inputNodes = [p \in InputPins |-> NULL]
    /\ evaluating = FALSE
    /\ sysPower = TRUE
    /\ extVal = [d \in ClockDrivers |-> STATE_LOW]
    /\ NoWiring
    /\ taskCounter = 1
    /\ executed = <<>>
    /\ calls = <<>>
    /\ lastCall = NoCall
    /\ rvals = <<>>
    /\ rout = NONE
    /\ part = [kind |-> "clock", toggles |-> 0, seen |-> 0]

\* the interval of registerClock fires: clockState flips and an update of
\* the clock net is scheduled at delay 0
KTick ==
    /\ part.toggles < MaxTicks
    /\ Len(eventQueue) < MaxPending
    /\ \E e0 \in {[Fresh EXCEPT !.extVal["clk"] =
                      IF extVal["clk"] = STATE_HIGH THEN STATE_LOW
                      ELSE STATE_HIGH]} :
       \E e \in {scheduleNodeUpdate(e0, 1, 0)} :
          Apply(e)
    /\ part' = [part EXCEPT !.toggles = @ + 1]
    /\ UNCHANGED <<rvals, rout, lastCall>>

\* a frame of the simulation loop: engine.step(dt); seen counts the calls
\* the listener of the clock net got
KStep(dt) ==
    /\ currentTime + dt <= MaxTime
    /\ \E e \in {step(Fresh, dt)} :
          /\ Apply(e)
          /\ part' = [part EXCEPT !.seen = @ + Len(e.calls)]
    /\ UNCHANGED <<rvals, rout, lastCall>>

NextClock ==
    \/ KTick
    \/ \E dt \in 0..MaxDelay : KStep(dt)

SpecClock == InitClock /\ [][NextClock]_vars

\* C34: every toggle of the powered clock source gives one transition of
\* the clock net that its listener observes: once the scheduled updates
\* have run, the listener was called as often as the source toggled,
\* also when the source toggled several times between two steps.
C34_EveryToggleSeen ==
    eventQueue = <<>> => part.seen = part.toggles

\* ---------------------------------------------------------------------
\* Pins and the nets they map to
\* ---------------------------------------------------------------------
\* C35: after any sequence of registerPin, addWire and removeWire every
\* registered pin maps to the id of a net the engine holds, also when two
\* pins were registered on one net and one of them became the target of a
\* wire.
C35_PinsMapToNets ==
    \A p \in Pins : pinToNodeId[p] \in nodes

\* C36: when a signal source changes its value, the update it schedules
\* with the net id it was registered with re-resolves, at the next step,
\* the net its pin maps to at that time, also after addWire or removeWire
\* replaced the net of the pin: the update task waiting in the queue
\* after a click on switch S0 names the net of pin switch-0.
C36_SourceUpdatesItsNet ==
    [][CToggle =>
          /\ pinToNodeId'["switch-0"] \in nodes'
          /\ \E i \in Idx(eventQueue') :
                /\ eventQueue'[i].task.kind = "update"
                /\ eventQueue'[i].task.node = pinToNodeId'["switch-0"]]_vars

\* ---------------------------------------------------------------------
\* Sections in series
\* ---------------------------------------------------------------------
\* C37: with no evaluation in progress and no ripe event in the queue,
\* every output register of a powered combinational chip holds the
\* chip's function of the states of its input nets, also when an output
\* of the chip is wired to an input of the same chip: here output 1Y of
\* an LS04 feeds its input 2A, and the clock generator feeds 1A.
C37_OutputsFollowInputs ==
    (/\ part.kind = "series"
     /\ \A c \in Chips(part.kind) : part.started[c] /\ ~part.evaluating[c]
     /\ ~part.pending)
        => \A c \in Chips(part.kind) :
              \A u \in ValSet(evaluateChip(part, c).updates) :
                  part.out[<<c, u.pin>>] = u.state

\* ---------------------------------------------------------------------
\* Clock edges and power
\* ---------------------------------------------------------------------
\* preset and clear of the first flip-flop are inactive
Inactive == part.in[IF part.kind = "LS74" THEN 4 ELSE 2] = STATE_HIGH
            /\ part.in[IF part.kind = "LS74" THEN 1 ELSE 3] = STATE_HIGH

\* C38: with preset and clear inactive the stored Q of a flip-flop changes
\* only on an evaluation for which its clock net made a clocking
\* transition while the chip was powered.
C38_ClockedOnlyWhilePowered ==
    [][(/\ SEvaluate
        /\ part.kind \in {"LS74", "LS76"}
        /\ Inactive
        /\ part'.st.ff1.q # part.st.ff1.q)
          => part.powered /\ part.edge]_vars

\* ---------------------------------------------------------------------
\* Legacy catalogue: gate 1 of the 74LS00 made by LogicGateIC, powered,
\* its inputs (pins 1 and 2) on nets driven from outside, right after the
\* power came on and runLogic scheduled the first output
\* ---------------------------------------------------------------------
LOGIC_NAND(inputs) ==
    IF \A i \in Idx(inputs) : inputs[i] = STATE_HIGH THEN STATE_LOW
    ELSE STATE_HIGH

\* LogicGateIC.evaluate() for the gate: in holds the states of the input
\* nets, which BaseIC.getInputState reads with FLOAT as HIGH
evaluateLogicGate(powered, in) ==
    IF ~powered THEN STATE_FLOAT
    ELSE LET inputStates == [i \in Idx(in) |-> floatsHigh(in[i])] IN
         IF STATE_ERROR \in ValSet(inputStates) THEN STATE_ERROR
         ELSE LOGIC_NAND(inputStates)

\* LogicGateIC.runLogic: a value that differs from the stored output is
\* scheduled to be stored after propDelay
runLogic(b) ==
    LET value == evaluateLogicGate(TRUE, b.in) IN
    IF b.stored # value
    THEN [b EXCEPT !.queue =
             sortByTime(Append(@, [time |-> b.time + propDelay,
                                   value |-> value]))]
    ELSE b

InitLegacy ==
    /\ part = runLogic([kind |-> "legacy",
                        in |-> <<STATE_LOW, STATE_LOW>>,
                        stored |-> STATE_FLOAT,
                        queue |-> <<>>,
                        time |-> 0])
    /\ rvals = <<>>
    /\ rout = NONE
    /\ NewEngine
    /\ NoChip

\* the net of input i changes to v: its listener calls runLogic
YSetInput(i, v) ==
    /\ part.in[i] # v
    /\ Len(part.queue) < MaxPending
    /\ part' = runLogic([part EXCEPT !.in[i] = v])
    /\ UNCHANGED <<rvals, rout, schedVars, netVars, extVars, wireVars,
                   lastCall>>

\* the while-loop of step over the scheduled closures: each stores its
\* value as the output
RECURSIVE drainStored(_)
drainStored(b) ==
    IF Len(b.queue) > 0 /\ b.queue[1].time <= b.time
    THEN drainStored([b EXCEPT !.stored = b.queue[1].value,
                              !.queue = Tail(b.queue)])
    ELSE b

YStep(dt) ==
    /\ part.time + dt <= MaxCircuitTime
    /\ part' = drainStored([part EXCEPT !.time = @ + dt])
    /\ UNCHANGED <<rvals, rout, schedVars, netVars, extVars, wireVars,
                   lastCall>>

NextLegacy ==
    \/ \E i \in {1, 2}, v \in {STATE_LOW, STATE_HIGH} : YSetInput(i, v)
    \/ \E dt \in {1, propDelay} : YStep(dt)

SpecLegacy == InitLegacy /\ [][NextLegacy]_vars

\* C39: once every scheduled event has run and the inputs are stable, the
\* stored output of a legacy gate is evaluate() of the present inputs,
\* also after an input changed and changed back within less than one
\* propagation delay.
C39_StoredFollowsInputs ==
    part.queue = <<>> => part.stored = evaluateLogicGate(TRUE, part.in)

\* ---------------------------------------------------------------------
\* Logical time
\* ---------------------------------------------------------------------
\* C40: with delays and durations that are not negative, currentTime
\* never decreases under schedule, step and run, and after every call
\* each queued event is stamped with currentTime or a later time.
C40_TimeMonotonic ==
    [][/\ currentTime' >= currentTime
       /\ \A i \in Idx(eventQueue') :
             eventQueue'[i].time >= currentTime']_vars

\* run returned at its target time, which it reached by running an event
\* stamped with it, and a second event with that stamp is still queued
C40_Witness ==
    /\ lastCall.op = "run"
    /\ currentTime > lastCall.prevTime
    /\ Len(eventQueue) > 0
    /\ eventQueue[1].time = currentTime
    /\ Len(executed) > 0
    /\ Last(executed).at = currentTime

====
